---- MODULE Spec2Model ----
(***************************************************************************)
(* A model of the Smart Lock Manager integration: the CodeSlot /           *)
(* SmartLockManagerLock objects (models/lock.py), the service handlers     *)
(* (services/*.py), persistence (storage/lock_storage.py, __init__.py),    *)
(* entry setup from stored data and the coordinator's reconcile tick       *)
(* (__init__.py), together with the physical Z-Wave lock they drive.       *)
(*                                                                         *)
(* Encoding of Python values:                                              *)
(*   Optional[T]   None is <<>>, a value v is <<v>>                        *)
(*   str (PINs)    a sequence of one-character strings, "" is <<>>         *)
(*   datetime      an integer instant, counted in hours from a Monday 0:00 *)
(*   list          a sequence                                              *)
(*   dict          a function on its keys                                  *)
(***************************************************************************)
EXTENDS Integers, Sequences, FiniteSets, TLC

VARIABLES
    entries,      \* ConfigEntry.data of every config entry: entry id -> [lock_name, lock_entity_id, slots]
    hass_states,  \* hass.states: lock entity id -> Optional friendly name of the entity
    order,        \* key order of hass.data[DOMAIN]: the loaded entry ids, in insertion order
    locks,        \* hass.data[DOMAIN][entry_id][PRIMARY_LOCK]: entry id -> SmartLockManagerLock
    store,        \* the Store of every entry: entry id -> Optional stored data
    zwave,        \* the physical locks: entity id -> (slot number -> user code held)
    queue,        \* service calls issued with hass.services.async_call(DOMAIN, ...) and not yet run
    now,          \* datetime.now()
    quiet,        \* TRUE once the user has stopped calling services and time stands still
    last,         \* the last handler run: its name, arguments and result
    zcalls,       \* zwave_js service calls issued by the last handler, in order
    events,       \* events fired on the bus by the last handler, in order
    logs,         \* log records of the last handler that carry text made from a PIN, in order
    services,     \* hass.services: the names of the services registered in the integration's domain
    global_settings  \* TRUE when hass.data[DOMAIN] holds the key "global_settings"

vars == <<entries, hass_states, order, locks, store, zwave, queue, now, quiet, last, zcalls, events,
          logs, services, global_settings>>

-----------------------------------------------------------------------------
(* Python values *)

None == <<>>
Some(v) == <<v>>

\* bool(x) of an Optional[str] or Optional[list]: None and the empty value are falsy
Truthy(opt) == opt # None /\ opt[1] # <<>>

Min(S) == CHOOSE m \in S : \A x \in S : m <= x

\* the elements of a set of integers in ascending order (dict iteration order of the slot maps)
SortedSeq(S) ==
    [i \in 1..Cardinality(S) |-> CHOOSE x \in S : Cardinality({y \in S : y < x}) = i - 1]

InList(x, lst) == \E i \in 1..Len(lst) : lst[i] = x

RemoveFromList(lst, x) == SelectSeq(lst, LAMBDA y : y # x)

\* one log record: the logging call it comes from and the arguments made from a PIN
LogRecord(site, args) == [site |-> site, args |-> args]

\* dict with key k set to v
Put(f, k, v) == [x \in (DOMAIN f) \cup {k} |-> IF x = k THEN v ELSE f[x]]

\* dict with the keys in K deleted
Drop(f, K) == [x \in (DOMAIN f) \ K |-> f[x]]

\* the decimal digits 0-9
DecimalDigits == {"0", "1", "2", "3", "4", "5", "6", "7", "8", "9"}

\* the sampled characters str.isdigit() accepts: the decimal digits and, written "sup2",
\* the character SUPERSCRIPT TWO (U+00B2), a digit that is not a decimal
Digits == DecimalDigits \cup {"sup2"}

\* str.isdigit(): non-empty and every character a digit
isdigit(s) == Len(s) > 0 /\ \A i \in 1..Len(s) : s[i] \in Digits

\* datetime.hour and datetime.weekday() (0 = Monday) of an instant
Hour(t) == t % 24
Weekday(t) == (t \div 24) % 7

-----------------------------------------------------------------------------
(* Bounds and sample inputs *)

\* days covered by the sampled instants
MaxDay == 1
\* largest slot count a resize is asked for in the service specification
MaxSlots == 3
\* queued service calls that may still be pending when a service is called, a tick starts
\* or an entry is reloaded
MaxPending == 0

\* PIN length limits of set_code and sync_slot_to_zwave
MinPinLen == 4
MaxPinLen == 8
\* the coordinator scans slots 1..ScanSlots of the physical lock
ScanSlots == 10
\* sync attempts after which a slot is reported under 'retry'
MaxSyncAttempts == 10
\* slot count limits checked by the resize_slots and update_lock_settings services
MinSlotCount == 1
MaxSlotCount == 50

Pin123 == <<"1", "2", "3">>
Pin1234 == <<"1", "2", "3", "4">>
Pin5678 == <<"5", "6", "7", "8">>
Pin12a4 == <<"1", "2", "a", "4">>
Pin8 == <<"1", "2", "3", "4", "5", "6", "7", "8">>
Pin9 == <<"1", "2", "3", "4", "5", "6", "7", "8", "9">>
PinSup2 == <<"sup2", "sup2", "sup2", "sup2">>
PinEmpty == <<>>

\* the sampled instants: hours 9 and 10 of the days 0..MaxDay
Instants == {24 * d + h : d \in 0..MaxDay, h \in {9, 10}}

-----------------------------------------------------------------------------
(* models/lock.py: CodeSlot *)

\* CodeSlot(slot_number=n): the dataclass defaults
CodeSlot(n) ==
    [slot_number |-> n, pin_code |-> None, is_active |-> FALSE, is_synced |-> FALSE,
     user_name |-> None, sync_attempts |-> 0, sync_error |-> None,
     start_date |-> None, end_date |-> None, allowed_hours |-> None, allowed_days |-> None,
     use_count |-> 0, max_uses |-> -1, notify_on_use |-> FALSE,
     created_at |-> None, last_used |-> None, expires_at |-> None]

\* is_valid_now with "now > end_date" written "now >= end_date"
is_valid_now_strict_end(slot, t) ==
    IF slot.start_date # None /\ t < slot.start_date[1] THEN FALSE
    ELSE IF slot.end_date # None /\ t >= slot.end_date[1] THEN FALSE
    ELSE IF Truthy(slot.allowed_hours) /\ ~InList(Hour(t), slot.allowed_hours[1]) THEN FALSE
    ELSE IF Truthy(slot.allowed_days) /\ ~InList(Weekday(t), slot.allowed_days[1]) THEN FALSE
    ELSE IF slot.max_uses > 0 /\ slot.use_count >= slot.max_uses THEN FALSE
    ELSE slot.is_active /\ Truthy(slot.pin_code)

\* CodeSlot.is_valid_now(), with datetime.now() = t
is_valid_now(slot, t) ==
    IF slot.start_date # None /\ t < slot.start_date[1] THEN FALSE
    ELSE IF slot.end_date # None /\ t > slot.end_date[1] THEN FALSE
    ELSE IF Truthy(slot.allowed_hours) /\ ~InList(Hour(t), slot.allowed_hours[1]) THEN FALSE
    ELSE IF Truthy(slot.allowed_days) /\ ~InList(Weekday(t), slot.allowed_days[1]) THEN FALSE
    ELSE IF slot.max_uses > 0 /\ slot.use_count >= slot.max_uses THEN FALSE
    ELSE slot.is_active /\ Truthy(slot.pin_code)

\* CodeSlot.should_disable(), with datetime.now() = t
should_disable(slot, t) ==
    IF slot.end_date # None /\ t > slot.end_date[1] THEN TRUE
    ELSE IF slot.max_uses > 0 /\ slot.use_count >= slot.max_uses THEN TRUE
    ELSE FALSE

\* get_status with the test of is_synced put before the test of sync_attempts
get_status_error_first(slot, valid_now, t) ==
    IF ~Truthy(slot.pin_code) THEN "EMPTY"
    ELSE IF ~slot.is_active /\ Truthy(slot.pin_code) /\ ~slot.is_synced THEN "DISABLING"
    ELSE IF should_disable(slot, t) THEN "DISABLED"
    ELSE IF ~slot.is_active THEN "DISABLED"
    ELSE IF slot.is_active /\ ~valid_now THEN "OUTSIDE_HOURS"
    ELSE IF slot.is_active /\ valid_now
         THEN (IF ~slot.is_synced THEN "SYNC_ERROR"
               ELSE IF slot.sync_attempts > 0 THEN "SYNCHRONIZING"
               ELSE "SYNCHRONIZED")
    ELSE "UNKNOWN"

\* CodeSlot.get_status(is_valid_now), with datetime.now() = t: the name of the status
get_status(slot, valid_now, t) ==
    IF ~Truthy(slot.pin_code) THEN "EMPTY"
    ELSE IF ~slot.is_active /\ Truthy(slot.pin_code) /\ ~slot.is_synced THEN "DISABLING"
    ELSE IF should_disable(slot, t) THEN "DISABLED"
    ELSE IF ~slot.is_active THEN "DISABLED"
    ELSE IF slot.is_active /\ ~valid_now THEN "OUTSIDE_HOURS"
    ELSE IF slot.is_active /\ valid_now
         THEN (IF slot.sync_attempts > 0 THEN "SYNCHRONIZING"
               ELSE IF ~slot.is_synced THEN "SYNC_ERROR"
               ELSE "SYNCHRONIZED")
    ELSE "UNKNOWN"

\* CodeSlot.increment_usage()
increment_usage(slot, t) == [slot EXCEPT !.use_count = @ + 1, !.last_used = Some(t)]

\* CodeSlot.reset_usage()
reset_usage(slot) == [slot EXCEPT !.use_count = 0]

-----------------------------------------------------------------------------
(* models/lock.py: SmartLockManagerLock *)

\* SmartLockManagerLock(lock_name, lock_entity_id, slots, start_from) and its __post_init__
NewLock(lock_name, lock_entity_id, slots, start_from) ==
    [lock_name |-> lock_name, lock_entity_id |-> lock_entity_id,
     slots |-> slots, start_from |-> start_from,
     friendly_name |-> "Smart Lock",
     is_main_lock |-> TRUE, parent_lock_id |-> None, child_lock_ids |-> <<>>,
     code_slots |-> [n \in start_from..(start_from + slots - 1) |-> CodeSlot(n)]]

\* the arguments of set_code after slot_number; the defaults of the signature
DefaultArgs ==
    [pin_code |-> None, user_name |-> None, start_date |-> None, end_date |-> None,
     allowed_hours |-> None, allowed_days |-> None, max_uses |-> -1, notify_on_use |-> FALSE]

\* the slot as set_code leaves it
SlotAfterSet(slot, a, t) ==
    [slot EXCEPT !.pin_code = a.pin_code,
                 !.user_name = a.user_name,
                 !.is_active = Truthy(a.pin_code),
                 !.is_synced = FALSE,
                 !.created_at = Some(t),
                 !.start_date = a.start_date,
                 !.end_date = a.end_date,
                 !.allowed_hours = a.allowed_hours,
                 !.allowed_days = a.allowed_days,
                 !.max_uses = a.max_uses,
                 !.notify_on_use = a.notify_on_use,
                 !.use_count = 0,
                 !.last_used = None]

\* set_code that keeps the usage counter of the slot
set_code_keeps_usage(lock, slot_number, a, t) ==
    IF slot_number \notin DOMAIN lock.code_slots THEN [lock |-> lock, ret |-> FALSE]
    ELSE IF Truthy(a.pin_code) /\ ~isdigit(a.pin_code[1]) THEN [lock |-> lock, ret |-> FALSE]
    ELSE IF Truthy(a.pin_code)
            /\ (Len(a.pin_code[1]) < MinPinLen \/ Len(a.pin_code[1]) > MaxPinLen)
         THEN [lock |-> lock, ret |-> FALSE]
    ELSE [lock |-> [lock EXCEPT !.code_slots[slot_number] =
                        [SlotAfterSet(@, a, t) EXCEPT !.use_count = lock.code_slots[slot_number].use_count]],
          ret |-> TRUE]

\* the _LOGGER.error records of SmartLockManagerLock.set_code: the PIN it refuses is logged
set_code_logs(lock, slot_number, a) ==
    IF slot_number \notin DOMAIN lock.code_slots \/ ~Truthy(a.pin_code) THEN <<>>
    ELSE IF ~isdigit(a.pin_code[1])
    THEN <<LogRecord("PIN code must be numeric only", <<a.pin_code[1]>>)>>
    ELSE IF Len(a.pin_code[1]) < MinPinLen \/ Len(a.pin_code[1]) > MaxPinLen
    THEN <<LogRecord("PIN code must be 4-8 digits", <<a.pin_code[1]>>)>>
    ELSE <<>>

\* SmartLockManagerLock.set_code(slot_number, pin_code, user_name, ...), with datetime.now() = t
set_code(lock, slot_number, a, t) ==
    IF slot_number \notin DOMAIN lock.code_slots THEN [lock |-> lock, ret |-> FALSE]
    ELSE IF Truthy(a.pin_code) /\ ~isdigit(a.pin_code[1]) THEN [lock |-> lock, ret |-> FALSE]
    ELSE IF Truthy(a.pin_code)
            /\ (Len(a.pin_code[1]) < MinPinLen \/ Len(a.pin_code[1]) > MaxPinLen)
         THEN [lock |-> lock, ret |-> FALSE]
    ELSE [lock |-> [lock EXCEPT !.code_slots[slot_number] = SlotAfterSet(@, a, t)],
          ret |-> TRUE]

\* the slot as clear_code leaves it
SlotAfterClear(slot) ==
    [slot EXCEPT !.pin_code = None,
                 !.user_name = None,
                 !.is_active = FALSE,
                 !.is_synced = TRUE,
                 !.created_at = None,
                 !.expires_at = None,
                 !.start_date = None,
                 !.end_date = None,
                 !.allowed_hours = None,
                 !.allowed_days = None,
                 !.max_uses = -1,
                 !.notify_on_use = FALSE,
                 !.use_count = 0,
                 !.last_used = None]

\* clear_code that leaves the usage limit of the slot in place
clear_code_keeps_limit(lock, slot_number) ==
    IF slot_number \notin DOMAIN lock.code_slots THEN [lock |-> lock, ret |-> FALSE]
    ELSE [lock |-> [lock EXCEPT !.code_slots[slot_number] =
                        [SlotAfterClear(@) EXCEPT !.max_uses = lock.code_slots[slot_number].max_uses]],
          ret |-> TRUE]

\* SmartLockManagerLock.clear_code(slot_number)
clear_code(lock, slot_number) ==
    IF slot_number \notin DOMAIN lock.code_slots THEN [lock |-> lock, ret |-> FALSE]
    ELSE [lock |-> [lock EXCEPT !.code_slots[slot_number] = SlotAfterClear(@)],
          ret |-> TRUE]

\* check_and_update_slot_validity that disables every active slot that is not valid now
check_and_update_disables_invalid(lock, t) ==
    LET disabled == {n \in DOMAIN lock.code_slots :
                        lock.code_slots[n].is_active /\ ~is_valid_now(lock.code_slots[n], t)}
    IN  [lock |-> [lock EXCEPT !.code_slots =
                      [n \in DOMAIN lock.code_slots |->
                          IF n \in disabled THEN [lock.code_slots[n] EXCEPT !.is_active = FALSE]
                          ELSE lock.code_slots[n]]],
         changed_slots |-> SortedSeq(disabled)]

\* SmartLockManagerLock.check_and_update_slot_validity(), with datetime.now() = t
check_and_update_slot_validity(lock, t) ==
    LET disabled == {n \in DOMAIN lock.code_slots :
                        lock.code_slots[n].is_active /\ should_disable(lock.code_slots[n], t)}
    IN  [lock |-> [lock EXCEPT !.code_slots =
                      [n \in DOMAIN lock.code_slots |->
                          IF n \in disabled THEN [lock.code_slots[n] EXCEPT !.is_active = FALSE]
                          ELSE lock.code_slots[n]]],
         changed_slots |-> SortedSeq(disabled)]

\* zwave_codes.get(slot_number, {}).get("code")
ZwaveCode(zwave_codes, slot_number) ==
    IF slot_number \in DOMAIN zwave_codes THEN Some(zwave_codes[slot_number]) ELSE None

\* get_slots_needing_sync without the removal of codes in slots the lock does not have
get_slots_needing_sync_keeps_rogue(lock, zwave_codes, t) ==
    LET cs == lock.code_slots
        wanted(n) == cs[n].is_active /\ Truthy(cs[n].pin_code) /\ is_valid_now(cs[n], t)
        differs(n) == ~Truthy(ZwaveCode(zwave_codes, n)) \/ ZwaveCode(zwave_codes, n) # cs[n].pin_code
        add == {n \in DOMAIN cs : wanted(n) /\ differs(n) /\ cs[n].sync_attempts < MaxSyncAttempts}
        retry == {n \in DOMAIN cs : wanted(n) /\ differs(n) /\ ~(cs[n].sync_attempts < MaxSyncAttempts)}
        remove1 == {n \in DOMAIN cs : ~wanted(n) /\ Truthy(ZwaveCode(zwave_codes, n))}
        remove2 == {n \in DOMAIN zwave_codes : n \in DOMAIN cs /\ ~cs[n].is_active}
    IN  [add |-> SortedSeq(add),
         remove |-> SortedSeq(remove1) \o SortedSeq(remove2),
         retry |-> SortedSeq(retry),
         lock |-> [lock EXCEPT !.code_slots =
                      [n \in DOMAIN cs |->
                          IF n \in retry
                          THEN [cs[n] EXCEPT !.sync_error = Some("Failed to sync after 10 attempts")]
                          ELSE cs[n]]]]

\* get_slots_needing_sync that still plans a sync at MaxSyncAttempts attempts
get_slots_needing_sync_one_more(lock, zwave_codes, t) ==
    LET cs == lock.code_slots
        wanted(n) == cs[n].is_active /\ Truthy(cs[n].pin_code) /\ is_valid_now(cs[n], t)
        differs(n) == ~Truthy(ZwaveCode(zwave_codes, n)) \/ ZwaveCode(zwave_codes, n) # cs[n].pin_code
        add == {n \in DOMAIN cs : wanted(n) /\ differs(n) /\ cs[n].sync_attempts <= MaxSyncAttempts}
        retry == {n \in DOMAIN cs : wanted(n) /\ differs(n) /\ ~(cs[n].sync_attempts <= MaxSyncAttempts)}
        remove1 == {n \in DOMAIN cs : ~wanted(n) /\ Truthy(ZwaveCode(zwave_codes, n))}
        remove2 == {n \in DOMAIN zwave_codes : n \notin DOMAIN cs \/ ~cs[n].is_active}
    IN  [add |-> SortedSeq(add),
         remove |-> SortedSeq(remove1) \o SortedSeq(remove2),
         retry |-> SortedSeq(retry),
         lock |-> [lock EXCEPT !.code_slots =
                      [n \in DOMAIN cs |->
                          IF n \in retry
                          THEN [cs[n] EXCEPT !.sync_error = Some("Failed to sync after 10 attempts")]
                          ELSE cs[n]]]]

\* SmartLockManagerLock.get_slots_needing_sync(zwave_codes), with datetime.now() = t
get_slots_needing_sync(lock, zwave_codes, t) ==
    LET cs == lock.code_slots
        wanted(n) == cs[n].is_active /\ Truthy(cs[n].pin_code) /\ is_valid_now(cs[n], t)
        differs(n) == ~Truthy(ZwaveCode(zwave_codes, n)) \/ ZwaveCode(zwave_codes, n) # cs[n].pin_code
        add == {n \in DOMAIN cs : wanted(n) /\ differs(n) /\ cs[n].sync_attempts < MaxSyncAttempts}
        retry == {n \in DOMAIN cs : wanted(n) /\ differs(n) /\ ~(cs[n].sync_attempts < MaxSyncAttempts)}
        remove1 == {n \in DOMAIN cs : ~wanted(n) /\ Truthy(ZwaveCode(zwave_codes, n))}
        remove2 == {n \in DOMAIN zwave_codes : n \notin DOMAIN cs \/ ~cs[n].is_active}
    IN  [add |-> SortedSeq(add),
         remove |-> SortedSeq(remove1) \o SortedSeq(remove2),
         retry |-> SortedSeq(retry),
         lock |-> [lock EXCEPT !.code_slots =
                      [n \in DOMAIN cs |->
                          IF n \in retry
                          THEN [cs[n] EXCEPT !.sync_error = Some("Failed to sync after 10 attempts")]
                          ELSE cs[n]]]]

\* update_sync_status that leaves sync_attempts alone when it marks a slot synced
update_sync_status_keeps_attempts(lock, zwave_codes) ==
    LET upd(slot) ==
            LET zwave_code == ZwaveCode(zwave_codes, slot.slot_number)
                synced == [slot EXCEPT !.is_synced = TRUE, !.sync_error = None]
                unsynced == [slot EXCEPT !.is_synced = FALSE]
            IN  IF slot.is_active /\ Truthy(slot.pin_code)
                THEN (IF zwave_code = slot.pin_code THEN synced ELSE unsynced)
                ELSE (IF ~Truthy(zwave_code) THEN synced ELSE unsynced)
    IN  [lock EXCEPT !.code_slots = [n \in DOMAIN lock.code_slots |-> upd(lock.code_slots[n])]]

\* SmartLockManagerLock.update_sync_status(zwave_codes)
update_sync_status(lock, zwave_codes) ==
    LET upd(slot) ==
            LET zwave_code == ZwaveCode(zwave_codes, slot.slot_number)
                synced == [slot EXCEPT !.is_synced = TRUE, !.sync_attempts = 0, !.sync_error = None]
                unsynced == [slot EXCEPT !.is_synced = FALSE]
            IN  IF slot.is_active /\ Truthy(slot.pin_code)
                THEN (IF zwave_code = slot.pin_code THEN synced ELSE unsynced)
                ELSE (IF ~Truthy(zwave_code) THEN synced ELSE unsynced)
    IN  [lock EXCEPT !.code_slots = [n \in DOMAIN lock.code_slots |-> upd(lock.code_slots[n])]]

\* SmartLockManagerLock.resize_slots(new_slot_count)
resize_slots(lock, new_slot_count) ==
    IF new_slot_count < 1 THEN [lock |-> lock, ret |-> FALSE]
    ELSE LET old_count == lock.slots
             cs == lock.code_slots
             slots_to_remove == {n \in DOMAIN cs : n >= lock.start_from + new_slot_count}
             new_numbers == (lock.start_from + old_count)..(lock.start_from + new_slot_count - 1)
         IN  [lock |-> [lock EXCEPT !.slots = new_slot_count,
                                    !.code_slots =
                                        IF new_slot_count < old_count THEN Drop(cs, slots_to_remove)
                                        ELSE IF new_slot_count > old_count
                                        THEN [n \in (DOMAIN cs) \cup new_numbers |->
                                                 IF n \in new_numbers THEN CodeSlot(n) ELSE cs[n]]
                                        ELSE cs],
              ret |-> TRUE]

\* SmartLockManagerLock.reset_slot_usage(slot_number)
reset_slot_usage(lock, slot_number) ==
    IF slot_number \notin DOMAIN lock.code_slots THEN [lock |-> lock, ret |-> FALSE]
    ELSE [lock |-> [lock EXCEPT !.code_slots[slot_number] = reset_usage(@)], ret |-> TRUE]

\* increment_slot_usage that leaves a used-up slot active
increment_slot_usage_keeps_active(lock, slot_number, t) ==
    IF slot_number \notin DOMAIN lock.code_slots THEN [lock |-> lock, ret |-> FALSE]
    ELSE LET used == increment_usage(lock.code_slots[slot_number], t)
         IN  [lock |-> [lock EXCEPT !.code_slots[slot_number] =
                           IF should_disable(used, t) THEN used
                           ELSE used],
              ret |-> TRUE]

\* SmartLockManagerLock.increment_slot_usage(slot_number), with datetime.now() = t
increment_slot_usage(lock, slot_number, t) ==
    IF slot_number \notin DOMAIN lock.code_slots THEN [lock |-> lock, ret |-> FALSE]
    ELSE LET used == increment_usage(lock.code_slots[slot_number], t)
         IN  [lock |-> [lock EXCEPT !.code_slots[slot_number] =
                           IF should_disable(used, t) THEN [used EXCEPT !.is_active = FALSE]
                           ELSE used],
              ret |-> TRUE]

\* enable_slot that also starts the usage counter of the slot again at 0
enable_slot_resets_usage(lock, slot_number) ==
    IF slot_number \notin DOMAIN lock.code_slots THEN [lock |-> lock, ret |-> FALSE]
    ELSE IF Truthy(lock.code_slots[slot_number].pin_code)
         THEN [lock |-> [lock EXCEPT !.code_slots[slot_number] =
                            [@ EXCEPT !.is_active = TRUE, !.use_count = 0]],
               ret |-> TRUE]
    ELSE [lock |-> lock, ret |-> FALSE]

\* SmartLockManagerLock.enable_slot(slot_number)
enable_slot(lock, slot_number) ==
    IF slot_number \notin DOMAIN lock.code_slots THEN [lock |-> lock, ret |-> FALSE]
    ELSE IF Truthy(lock.code_slots[slot_number].pin_code)
         THEN [lock |-> [lock EXCEPT !.code_slots[slot_number].is_active = TRUE], ret |-> TRUE]
    ELSE [lock |-> lock, ret |-> FALSE]

\* disable_slot that leaves the sync flag of the slot as it is
disable_slot_keeps_synced(lock, slot_number) ==
    IF slot_number \notin DOMAIN lock.code_slots THEN [lock |-> lock, ret |-> FALSE]
    ELSE [lock |-> [lock EXCEPT !.code_slots[slot_number] =
                       [@ EXCEPT !.is_active = FALSE, !.sync_attempts = 0]],
          ret |-> TRUE]

\* SmartLockManagerLock.disable_slot(slot_number)
disable_slot(lock, slot_number) ==
    IF slot_number \notin DOMAIN lock.code_slots THEN [lock |-> lock, ret |-> FALSE]
    ELSE [lock |-> [lock EXCEPT !.code_slots[slot_number] =
                       [@ EXCEPT !.is_active = FALSE, !.is_synced = FALSE, !.sync_attempts = 0]],
          ret |-> TRUE]

\* the fields sync_to_child_locks copies from a parent slot to a child slot
CopiedFields(slot) ==
    [pin_code |-> slot.pin_code, user_name |-> slot.user_name, is_active |-> slot.is_active,
     start_date |-> slot.start_date, end_date |-> slot.end_date,
     allowed_hours |-> slot.allowed_hours, allowed_days |-> slot.allowed_days,
     max_uses |-> slot.max_uses, notify_on_use |-> slot.notify_on_use]

\* sync_to_child_locks that also copies the usage counter
sync_to_child_locks_with_usage(lock, child_lock) ==
    IF ~lock.is_main_lock THEN child_lock
    ELSE IF child_lock.parent_lock_id # Some(lock.lock_entity_id) THEN child_lock
    ELSE [child_lock EXCEPT !.code_slots =
             [n \in DOMAIN child_lock.code_slots |->
                 IF n \in DOMAIN lock.code_slots
                 THEN LET slot == lock.code_slots[n]
                      IN  [child_lock.code_slots[n] EXCEPT
                              !.pin_code = slot.pin_code,
                              !.user_name = slot.user_name,
                              !.is_active = slot.is_active,
                              !.start_date = slot.start_date,
                              !.end_date = slot.end_date,
                              !.allowed_hours = slot.allowed_hours,
                              !.allowed_days = slot.allowed_days,
                              !.max_uses = slot.max_uses,
                              !.notify_on_use = slot.notify_on_use,
                              !.use_count = slot.use_count]
                 ELSE child_lock.code_slots[n]]]

\* SmartLockManagerLock.sync_to_child_locks([child_lock]): the child lock as it is left
sync_to_child_locks(lock, child_lock) ==
    IF ~lock.is_main_lock THEN child_lock
    ELSE IF child_lock.parent_lock_id # Some(lock.lock_entity_id) THEN child_lock
    ELSE [child_lock EXCEPT !.code_slots =
             [n \in DOMAIN child_lock.code_slots |->
                 IF n \in DOMAIN lock.code_slots
                 THEN LET slot == lock.code_slots[n]
                      IN  [child_lock.code_slots[n] EXCEPT
                              !.pin_code = slot.pin_code,
                              !.user_name = slot.user_name,
                              !.is_active = slot.is_active,
                              !.start_date = slot.start_date,
                              !.end_date = slot.end_date,
                              !.allowed_hours = slot.allowed_hours,
                              !.allowed_days = slot.allowed_days,
                              !.max_uses = slot.max_uses,
                              !.notify_on_use = slot.notify_on_use]
                 ELSE child_lock.code_slots[n]]]

-----------------------------------------------------------------------------
(* Persistence: __init__.py _save_lock_data, storage/lock_storage.py, lock.to_dict *)

\* d.isoformat() if d else None
isoformat(d) == IF d = None THEN None ELSE Some(<<"iso", d[1]>>)

\* datetime.fromisoformat(s) if s else None
fromisoformat(s) == IF s = None THEN None ELSE Some(s[1][2])

\* str(slot_num), the key a slot is stored under, and int(slot_num_str) of a stored key
str(n) == <<"str", n>>
int(k) == k[2]

\* the slot fields both save paths write
SavedSlot(slot) ==
    [slot_number |-> slot.slot_number, pin_code |-> slot.pin_code,
     user_name |-> slot.user_name, is_active |-> slot.is_active,
     start_date |-> isoformat(slot.start_date), end_date |-> isoformat(slot.end_date),
     allowed_hours |-> slot.allowed_hours, allowed_days |-> slot.allowed_days,
     max_uses |-> slot.max_uses, use_count |-> slot.use_count,
     notify_on_use |-> slot.notify_on_use]

\* slot_data of the save paths: the saved fields of every slot under the key str(slot_num)
SavedSlots(lock) ==
    [k \in {str(n) : n \in DOMAIN lock.code_slots} |-> SavedSlot(lock.code_slots[int(k)])]

\* the record _save_lock_data / save_lock_data hand to store.async_save
save_lock_data(lock) ==
    [code_slots |-> SavedSlots(lock),
     lock_name |-> lock.lock_name, lock_entity_id |-> lock.lock_entity_id,
     full |-> None]

\* SmartLockManagerLock.to_dict(): the slot fields above plus the lock's own fields; the
\* sync bookkeeping and timestamps it also writes per slot are read back by no code and
\* are left out
to_dict(lock) ==
    [code_slots |-> SavedSlots(lock),
     lock_name |-> lock.lock_name, lock_entity_id |-> lock.lock_entity_id,
     full |-> Some([slots |-> lock.slots, start_from |-> lock.start_from,
                    is_main_lock |-> lock.is_main_lock,
                    parent_lock_id |-> lock.parent_lock_id,
                    child_lock_ids |-> lock.child_lock_ids,
                    friendly_name |-> lock.friendly_name])]

\* the restore of a stored slot that starts the usage counter again at 0
RestoredSlot_without_use_count(slot_data) ==
    [CodeSlot(slot_data.slot_number) EXCEPT
        !.pin_code = slot_data.pin_code,
        !.user_name = slot_data.user_name,
        !.is_active = slot_data.is_active,
        !.start_date = fromisoformat(slot_data.start_date),
        !.end_date = fromisoformat(slot_data.end_date),
        !.allowed_hours = slot_data.allowed_hours,
        !.allowed_days = slot_data.allowed_days,
        !.max_uses = slot_data.max_uses,
        !.notify_on_use = slot_data.notify_on_use]

\* the CodeSlot async_setup_entry rebuilds from one stored slot
RestoredSlot(slot_data) ==
    [CodeSlot(slot_data.slot_number) EXCEPT
        !.pin_code = slot_data.pin_code,
        !.user_name = slot_data.user_name,
        !.is_active = slot_data.is_active,
        !.start_date = fromisoformat(slot_data.start_date),
        !.end_date = fromisoformat(slot_data.end_date),
        !.allowed_hours = slot_data.allowed_hours,
        !.allowed_days = slot_data.allowed_days,
        !.max_uses = slot_data.max_uses,
        !.use_count = slot_data.use_count,
        !.notify_on_use = slot_data.notify_on_use]

\* state.name of a lock entity that has no friendly_name attribute
ObjectName(entity) == IF entity = "lock.a" THEN "a" ELSE IF entity = "lock.b" THEN "b" ELSE "lock"

\* async_setup_entry, lines 205-278: the lock object built from the entry and the stored data
RestoreLock(entry, states, stored_data) ==
    LET lock_entity_id == entry.lock_entity_id
        lock_name == IF lock_entity_id # "" /\ lock_entity_id \in DOMAIN states
                     THEN (IF states[lock_entity_id] # None THEN states[lock_entity_id][1]
                           ELSE ObjectName(lock_entity_id))
                     ELSE entry.lock_name
        lock == NewLock(lock_name, lock_entity_id, entry.slots, 1)
    IN  IF stored_data # None /\ DOMAIN stored_data[1].code_slots # {}
        THEN [lock EXCEPT !.code_slots =
                 [n \in {int(k) : k \in DOMAIN stored_data[1].code_slots} |->
                     RestoredSlot(stored_data[1].code_slots[
                         CHOOSE k \in DOMAIN stored_data[1].code_slots : int(k) = n])]]
        ELSE lock

-----------------------------------------------------------------------------
(* The world a handler runs in and what it leaves behind *)

World ==
    [order |-> order, locks |-> locks, store |-> store, zwave |-> zwave, queue |-> queue,
     zcalls |-> <<>>, events |-> <<>>, logs |-> <<>>, found |-> FALSE, ret |-> FALSE]

\* the lookup falling back on the first loaded lock when no lock has the entity id
FindByEntity_or_first(W, entity_id) ==
    LET hits == {i \in 1..Len(W.order) : W.locks[W.order[i]].lock_entity_id = entity_id}
    IN  IF hits = {} THEN (IF W.order = <<>> THEN None ELSE Some(W.order[1]))
        ELSE Some(W.order[Min(hits)])

\* the first entry of hass.data[DOMAIN] whose lock has this entity id
FindByEntity(W, entity_id) ==
    LET hits == {i \in 1..Len(W.order) : W.locks[W.order[i]].lock_entity_id = entity_id}
    IN  IF hits = {} THEN None ELSE Some(W.order[Min(hits)])

\* the first entry of hass.data[DOMAIN] whose lock has this lock_name
FindByName(W, lock_name) ==
    LET hits == {i \in 1..Len(W.order) : W.locks[W.order[i]].lock_name = lock_name}
    IN  IF hits = {} THEN None ELSE Some(W.order[Min(hits)])

\* hass.services.async_call(DOMAIN, ...) without blocking: the call is queued
Enqueue(W, svc, entity_id, slot, action) ==
    [W EXCEPT !.queue = Append(@, [svc |-> svc, entity_id |-> entity_id,
                                   slot |-> slot, action |-> action])]

\* hass.services.async_call("zwave_js", svc, ..., blocking=True) with the given outcome:
\* "ok" the lock takes the change, "lost" the call returns and the lock does not change,
\* "raises" the call raises
ZwaveCall(W, svc, entity_id, slot, usercode, outcome) ==
    LET held == IF entity_id \in DOMAIN W.zwave THEN W.zwave[entity_id] ELSE <<>>
        after == IF svc = "set_lock_usercode" THEN Put(held, slot, usercode[1])
                 ELSE Drop(held, {slot})
    IN  [W EXCEPT !.zcalls = Append(@, [svc |-> svc, entity_id |-> entity_id,
                                        slot |-> slot, usercode |-> usercode]),
                  !.zwave = IF outcome = "ok" /\ entity_id \in DOMAIN W.zwave
                            THEN [@ EXCEPT ![entity_id] = after] ELSE @]

-----------------------------------------------------------------------------
(* services/management_services.py *)

\* ManagementServices.sync_child_locks
sync_child_locks(W, entity_id) ==
    LET e == FindByEntity(W, entity_id)
    IN  IF e = None THEN W
        ELSE LET main_lock == W.locks[e[1]]
                 children == {x \in DOMAIN W.locks :
                                 InList(W.locks[x].lock_entity_id, main_lock.child_lock_ids)}
             IN  IF ~main_lock.is_main_lock \/ main_lock.child_lock_ids = <<>> \/ children = {}
                 THEN [W EXCEPT !.found = TRUE]
                 ELSE [W EXCEPT
                          !.found = TRUE, !.ret = TRUE,
                          !.locks = [x \in DOMAIN W.locks |->
                                        IF x \in children
                                        THEN sync_to_child_locks(main_lock, W.locks[x])
                                        ELSE W.locks[x]],
                          !.store = [x \in DOMAIN W.store |->
                                        IF x \in children
                                        THEN Some(to_dict(sync_to_child_locks(main_lock, W.locks[x])))
                                        ELSE W.store[x]]]

\* "Trigger immediate child sync if this is a main lock with children" of the lock services
TriggerChildSync(W, lock) ==
    IF lock.is_main_lock /\ lock.child_lock_ids # <<>>
    THEN Enqueue(W, "sync_child_locks", lock.lock_entity_id, 0, "")
    ELSE W

-----------------------------------------------------------------------------
(* services/lock_services.py *)

\* LockServices.set_code and LockServices.set_code_advanced: a holds the arguments
\* handed to lock.set_code
LockServices_set_code(W, entity_id, code_slot, a, t) ==
    LET e == FindByEntity(W, entity_id)
    IN  IF e = None THEN W
        ELSE LET r == set_code(W.locks[e[1]], code_slot, a, t)
             IN  IF r.ret
                 THEN TriggerChildSync(
                          [W EXCEPT !.found = TRUE, !.ret = TRUE,
                                    !.locks[e[1]] = r.lock,
                                    !.store[e[1]] = Some(save_lock_data(r.lock))],
                          r.lock)
                 ELSE [W EXCEPT !.found = TRUE,
                                !.logs = @ \o set_code_logs(W.locks[e[1]], code_slot, a)]

\* LockServices.clear_code
LockServices_clear_code(W, entity_id, code_slot, outcome) ==
    LET e == FindByEntity(W, entity_id)
    IN  IF e = None THEN W
        ELSE LET r == clear_code(W.locks[e[1]], code_slot)
             IN  IF r.ret
                 THEN LET W1 == ZwaveCall([W EXCEPT !.found = TRUE, !.ret = TRUE,
                                                    !.locks[e[1]] = r.lock],
                                          "clear_lock_usercode", entity_id, code_slot, None, outcome)
                      IN  TriggerChildSync(
                              [W1 EXCEPT !.store[e[1]] = Some(save_lock_data(r.lock))], r.lock)
                 ELSE [W EXCEPT !.found = TRUE]

-----------------------------------------------------------------------------
(* services/slot_services.py *)

\* SlotServices.enable_slot
SlotServices_enable_slot(W, entity_id, code_slot) ==
    LET e == FindByEntity(W, entity_id)
    IN  IF e = None THEN W
        ELSE LET r == enable_slot(W.locks[e[1]], code_slot)
             IN  IF r.ret
                 THEN [W EXCEPT !.found = TRUE, !.ret = TRUE,
                                !.locks[e[1]] = r.lock,
                                !.store[e[1]] = Some(save_lock_data(r.lock))]
                 ELSE [W EXCEPT !.found = TRUE]

\* SlotServices.disable_slot
SlotServices_disable_slot(W, entity_id, code_slot) ==
    LET e == FindByEntity(W, entity_id)
    IN  IF e = None THEN W
        ELSE LET r == disable_slot(W.locks[e[1]], code_slot)
             IN  IF r.ret
                 THEN [W EXCEPT !.found = TRUE, !.ret = TRUE,
                                !.locks[e[1]] = r.lock,
                                !.store[e[1]] = Some(save_lock_data(r.lock))]
                 ELSE [W EXCEPT !.found = TRUE]

\* SlotServices.reset_slot_usage
SlotServices_reset_slot_usage(W, entity_id, code_slot) ==
    LET e == FindByEntity(W, entity_id)
    IN  IF e = None THEN W
        ELSE LET r == reset_slot_usage(W.locks[e[1]], code_slot)
             IN  IF r.ret
                 THEN [W EXCEPT !.found = TRUE, !.ret = TRUE, !.locks[e[1]] = r.lock]
                 ELSE [W EXCEPT !.found = TRUE]

\* SlotServices.resize_slots without the upper limit on the slot count
SlotServices_resize_slots_no_max(W, entity_id, slot_count) ==
    LET e == FindByEntity(W, entity_id)
    IN  IF e = None THEN W
        ELSE IF slot_count < MinSlotCount
             THEN [W EXCEPT !.found = TRUE]
        ELSE LET r == resize_slots(W.locks[e[1]], slot_count)
             IN  IF r.ret
                 THEN [W EXCEPT !.found = TRUE, !.ret = TRUE,
                                !.locks[e[1]] = r.lock,
                                !.store[e[1]] = Some(to_dict(r.lock))]
                 ELSE [W EXCEPT !.found = TRUE]

\* SlotServices.resize_slots
SlotServices_resize_slots(W, entity_id, slot_count) ==
    LET e == FindByEntity(W, entity_id)
    IN  IF e = None THEN W
        ELSE IF slot_count < MinSlotCount \/ slot_count > MaxSlotCount
             THEN [W EXCEPT !.found = TRUE]
        ELSE LET r == resize_slots(W.locks[e[1]], slot_count)
             IN  IF r.ret
                 THEN [W EXCEPT !.found = TRUE, !.ret = TRUE,
                                !.locks[e[1]] = r.lock,
                                !.store[e[1]] = Some(to_dict(r.lock))]
                 ELSE [W EXCEPT !.found = TRUE]

-----------------------------------------------------------------------------
(* services/zwave_services.py *)

\* the PIN check of sync_slot_to_zwave: the message of the ValueError it raises, or None
PinError(pin) ==
    IF ~isdigit(pin) THEN Some("PIN code must be numeric only")
    ELSE IF Len(pin) < MinPinLen \/ Len(pin) > MaxPinLen THEN Some("PIN code must be 4-8 digits")
    ELSE None

\* the end of sync_slot_to_zwave: the slot marked synced, or the except branch with message err
SyncDone(W, e, slot_number, err) ==
    [W EXCEPT !.locks[e].code_slots[slot_number] =
        IF err = None THEN [@ EXCEPT !.is_synced = TRUE, !.sync_error = None]
        ELSE [@ EXCEPT !.is_synced = FALSE, !.sync_error = err]]

\* the error a zwave_js call with this outcome raises, or None
CallError(outcome) == IF outcome = "raises" THEN Some("zwave_js call failed") ELSE None

\* what the 'auto' branch gets when reading the code the lock holds raises
ReadFails == Some(<<"read raises">>)

\* sync_slot_to_zwave whose 'auto' branch leaves the lock alone when the slot is inactive or
\* has no PIN
sync_slot_to_zwave_auto_skips_clear(W, entity_id, slot_number, action, outcome, current_code, clear_outcome) ==
    LET e == FindByEntity(W, entity_id)
    IN  IF e = None THEN W
        ELSE IF slot_number \notin DOMAIN W.locks[e[1]].code_slots THEN [W EXCEPT !.found = TRUE]
        ELSE
        LET slot == W.locks[e[1]].code_slots[slot_number]
            W0 == [W EXCEPT !.found = TRUE, !.ret = TRUE]
            wanted == slot.is_active /\ Truthy(slot.pin_code)
            error_log == LogRecord("Error syncing slot", <<slot.pin_code[1]>>)
            clearing_log == LogRecord("Clearing existing code before setting new one",
                                      <<current_code[1], slot.pin_code[1]>>)
            W1 == [W0 EXCEPT !.logs = Append(@, clearing_log)]
            set == ZwaveCall(W0, "set_lock_usercode", entity_id, slot_number, slot.pin_code, outcome)
            clear == ZwaveCall(W0, "clear_lock_usercode", entity_id, slot_number, None, outcome)
            clear_then_set ==
                ZwaveCall(ZwaveCall(W1, "clear_lock_usercode", entity_id, slot_number, None,
                                    clear_outcome),
                          "set_lock_usercode", entity_id, slot_number, slot.pin_code, outcome)
        IN  IF action = "enable" /\ wanted
            THEN (IF PinError(slot.pin_code[1]) # None
                  THEN SyncDone([W0 EXCEPT !.logs = Append(@, error_log)], e[1], slot_number,
                                PinError(slot.pin_code[1]))
                  ELSE SyncDone(set, e[1], slot_number, CallError(outcome)))
            ELSE IF action = "disable"
            THEN SyncDone(clear, e[1], slot_number, CallError(outcome))
            ELSE IF action = "auto"
            THEN (IF wanted
                  THEN (IF PinError(slot.pin_code[1]) # None
                        THEN SyncDone([W0 EXCEPT !.logs = Append(@, error_log)], e[1], slot_number,
                                PinError(slot.pin_code[1]))
                        ELSE IF current_code # ReadFails /\ Truthy(current_code)
                                /\ current_code # slot.pin_code
                        THEN SyncDone(clear_then_set, e[1], slot_number, CallError(outcome))
                        ELSE SyncDone(set, e[1], slot_number, CallError(outcome)))
                  ELSE SyncDone(W0, e[1], slot_number, None))
            ELSE SyncDone(W0, e[1], slot_number, None)

\* sync_slot_to_zwave whose 'auto' branch clears the old code after setting the new one
sync_slot_to_zwave_set_before_clear(W, entity_id, slot_number, action, outcome, current_code, clear_outcome) ==
    LET e == FindByEntity(W, entity_id)
    IN  IF e = None THEN W
        ELSE IF slot_number \notin DOMAIN W.locks[e[1]].code_slots THEN [W EXCEPT !.found = TRUE]
        ELSE
        LET slot == W.locks[e[1]].code_slots[slot_number]
            W0 == [W EXCEPT !.found = TRUE, !.ret = TRUE]
            wanted == slot.is_active /\ Truthy(slot.pin_code)
            error_log == LogRecord("Error syncing slot", <<slot.pin_code[1]>>)
            clearing_log == LogRecord("Clearing existing code before setting new one",
                                      <<current_code[1], slot.pin_code[1]>>)
            W1 == [W0 EXCEPT !.logs = Append(@, clearing_log)]
            set == ZwaveCall(W0, "set_lock_usercode", entity_id, slot_number, slot.pin_code, outcome)
            clear == ZwaveCall(W0, "clear_lock_usercode", entity_id, slot_number, None, outcome)
            clear_then_set ==
                ZwaveCall(ZwaveCall(W1, "set_lock_usercode", entity_id, slot_number,
                                    slot.pin_code, outcome),
                          "clear_lock_usercode", entity_id, slot_number, None, clear_outcome)
        IN  IF action = "enable" /\ wanted
            THEN (IF PinError(slot.pin_code[1]) # None
                  THEN SyncDone([W0 EXCEPT !.logs = Append(@, error_log)], e[1], slot_number,
                                PinError(slot.pin_code[1]))
                  ELSE SyncDone(set, e[1], slot_number, CallError(outcome)))
            ELSE IF action = "disable"
            THEN SyncDone(clear, e[1], slot_number, CallError(outcome))
            ELSE IF action = "auto"
            THEN (IF wanted
                  THEN (IF PinError(slot.pin_code[1]) # None
                        THEN SyncDone([W0 EXCEPT !.logs = Append(@, error_log)], e[1], slot_number,
                                PinError(slot.pin_code[1]))
                        ELSE IF current_code # ReadFails /\ Truthy(current_code)
                                /\ current_code # slot.pin_code
                        THEN SyncDone(clear_then_set, e[1], slot_number, CallError(outcome))
                        ELSE SyncDone(set, e[1], slot_number, CallError(outcome)))
                  ELSE SyncDone(clear, e[1], slot_number, CallError(outcome)))
            ELSE SyncDone(W0, e[1], slot_number, None)

\* sync_slot_to_zwave whose 'enable' branch does not test is_active
sync_slot_to_zwave_enable_unchecked(W, entity_id, slot_number, action, outcome, current_code, clear_outcome) ==
    LET e == FindByEntity(W, entity_id)
    IN  IF e = None THEN W
        ELSE IF slot_number \notin DOMAIN W.locks[e[1]].code_slots THEN [W EXCEPT !.found = TRUE]
        ELSE
        LET slot == W.locks[e[1]].code_slots[slot_number]
            W0 == [W EXCEPT !.found = TRUE, !.ret = TRUE]
            wanted == slot.is_active /\ Truthy(slot.pin_code)
            error_log == LogRecord("Error syncing slot", <<slot.pin_code[1]>>)
            clearing_log == LogRecord("Clearing existing code before setting new one",
                                      <<current_code[1], slot.pin_code[1]>>)
            W1 == [W0 EXCEPT !.logs = Append(@, clearing_log)]
            set == ZwaveCall(W0, "set_lock_usercode", entity_id, slot_number, slot.pin_code, outcome)
            clear == ZwaveCall(W0, "clear_lock_usercode", entity_id, slot_number, None, outcome)
            clear_then_set ==
                ZwaveCall(ZwaveCall(W1, "clear_lock_usercode", entity_id, slot_number, None,
                                    clear_outcome),
                          "set_lock_usercode", entity_id, slot_number, slot.pin_code, outcome)
        IN  IF action = "enable" /\ Truthy(slot.pin_code)
            THEN (IF PinError(slot.pin_code[1]) # None
                  THEN SyncDone([W0 EXCEPT !.logs = Append(@, error_log)], e[1], slot_number,
                                PinError(slot.pin_code[1]))
                  ELSE SyncDone(set, e[1], slot_number, CallError(outcome)))
            ELSE IF action = "disable"
            THEN SyncDone(clear, e[1], slot_number, CallError(outcome))
            ELSE IF action = "auto"
            THEN (IF wanted
                  THEN (IF PinError(slot.pin_code[1]) # None
                        THEN SyncDone([W0 EXCEPT !.logs = Append(@, error_log)], e[1], slot_number,
                                PinError(slot.pin_code[1]))
                        ELSE IF current_code # ReadFails /\ Truthy(current_code)
                                /\ current_code # slot.pin_code
                        THEN SyncDone(clear_then_set, e[1], slot_number, CallError(outcome))
                        ELSE SyncDone(set, e[1], slot_number, CallError(outcome)))
                  ELSE SyncDone(clear, e[1], slot_number, CallError(outcome)))
            ELSE SyncDone(W0, e[1], slot_number, None)

\* ZWaveServices.sync_slot_to_zwave.  current_code is what the 'auto' branch reads as the
\* code the lock holds in the slot (None: nothing read, ReadFails: the read raises),
\* clear_outcome the outcome of the clear_lock_usercode it issues before a set when the
\* code read differs, and outcome the outcome of the call that follows.  The read and the
\* clear before the set sit in an inner try whose except only logs, so an exception of
\* either is dropped and the set is issued; any other exception reaches the outer except.
sync_slot_to_zwave(W, entity_id, slot_number, action, outcome, current_code, clear_outcome) ==
    LET e == FindByEntity(W, entity_id)
    IN  IF e = None THEN W
        ELSE IF slot_number \notin DOMAIN W.locks[e[1]].code_slots THEN [W EXCEPT !.found = TRUE]
        ELSE
        LET slot == W.locks[e[1]].code_slots[slot_number]
            W0 == [W EXCEPT !.found = TRUE, !.ret = TRUE]
            wanted == slot.is_active /\ Truthy(slot.pin_code)
            error_log == LogRecord("Error syncing slot", <<slot.pin_code[1]>>)
            clearing_log == LogRecord("Clearing existing code before setting new one",
                                      <<current_code[1], slot.pin_code[1]>>)
            W1 == [W0 EXCEPT !.logs = Append(@, clearing_log)]
            set == ZwaveCall(W0, "set_lock_usercode", entity_id, slot_number, slot.pin_code, outcome)
            clear == ZwaveCall(W0, "clear_lock_usercode", entity_id, slot_number, None, outcome)
            clear_then_set ==
                ZwaveCall(ZwaveCall(W1, "clear_lock_usercode", entity_id, slot_number, None,
                                    clear_outcome),
                          "set_lock_usercode", entity_id, slot_number, slot.pin_code, outcome)
        IN  IF action = "enable" /\ wanted
            THEN (IF PinError(slot.pin_code[1]) # None
                  THEN SyncDone([W0 EXCEPT !.logs = Append(@, error_log)], e[1], slot_number,
                                PinError(slot.pin_code[1]))
                  ELSE SyncDone(set, e[1], slot_number, CallError(outcome)))
            ELSE IF action = "disable"
            THEN SyncDone(clear, e[1], slot_number, CallError(outcome))
            ELSE IF action = "auto"
            THEN (IF wanted
                  THEN (IF PinError(slot.pin_code[1]) # None
                        THEN SyncDone([W0 EXCEPT !.logs = Append(@, error_log)], e[1], slot_number,
                                PinError(slot.pin_code[1]))
                        ELSE IF current_code # ReadFails /\ Truthy(current_code)
                                /\ current_code # slot.pin_code
                        THEN SyncDone(clear_then_set, e[1], slot_number, CallError(outcome))
                        ELSE SyncDone(set, e[1], slot_number, CallError(outcome)))
                  ELSE SyncDone(clear, e[1], slot_number, CallError(outcome)))
            ELSE SyncDone(W0, e[1], slot_number, None)

-----------------------------------------------------------------------------
(* __init__.py: the coordinator *)

\* Step 2 of _async_update_data: the codes read from slots 1..ScanSlots of the lock
ReadZwaveCodes(W, entity_id) ==
    LET held == IF entity_id \in DOMAIN W.zwave THEN W.zwave[entity_id] ELSE <<>>
    IN  [n \in (DOMAIN held) \cap (1..ScanSlots) |-> held[n]]

\* one queued call per element of the list, in order
EnqueueAll(W, entity_id, lst, calls) ==
    [W EXCEPT !.queue = @ \o
        [i \in 1..Len(lst) |->
            [svc |-> calls[i].svc, entity_id |-> entity_id,
             slot |-> lst[i], action |-> calls[i].action]]]

\* Steps 4 to 6 of _async_update_data for the lock of entry x: the calls planned by
\* get_slots_needing_sync are queued, adds first, and the slots still in error are reported
QueueSyncCalls(W, x, sync_actions) ==
    LET l3 == sync_actions.lock
        adds == {sync_actions.add[i] : i \in 1..Len(sync_actions.add)}
        l4 == [l3 EXCEPT !.code_slots =
                  [n \in DOMAIN l3.code_slots |->
                      IF n \in adds THEN [l3.code_slots[n] EXCEPT !.sync_attempts = @ + 1]
                      ELSE l3.code_slots[n]]]
        addCall(n) == [svc |-> "sync_slot_to_zwave", action |-> "enable"]
        removeCall(n) == IF n \notin DOMAIN l4.code_slots
                         THEN [svc |-> "clear_code", action |-> ""]
                         ELSE [svc |-> "sync_slot_to_zwave", action |-> "disable"]
        W1 == [W EXCEPT !.locks[x] = l4, !.found = TRUE, !.ret = TRUE]
        W2 == EnqueueAll(W1, l4.lock_entity_id, sync_actions.add,
                         [i \in 1..Len(sync_actions.add) |-> addCall(sync_actions.add[i])])
        W3 == EnqueueAll(W2, l4.lock_entity_id, sync_actions.remove,
                         [i \in 1..Len(sync_actions.remove) |-> removeCall(sync_actions.remove[i])])
        errors == SelectSeq(sync_actions.retry, LAMBDA n : l4.code_slots[n].sync_error # None)
    IN  [W3 EXCEPT !.events = @ \o
            [i \in 1..Len(errors) |->
                [event |-> "smart_lock_manager_sync_error",
                 entity_id |-> l4.lock_entity_id, slot_number |-> errors[i]]]]

\* SmartLockManagerDataUpdateCoordinator._async_update_data of the coordinator of entry e,
\* with datetime.now() = t.  The steps run in the order of the code, each on the result of
\* the one before: l1 after check_and_update_slot_validity, l2 after update_sync_status,
\* sync_actions from get_slots_needing_sync.
coordinator_update(W, e, cfg, t) ==
    LET f == FindByName(W, cfg[e].lock_name)
    IN  IF f = None THEN W
        ELSE CHOOSE R \in
            { QueueSyncCalls(W, f[1], sync_actions) :
                sync_actions \in
                { get_slots_needing_sync(l2, ReadZwaveCodes(W, l2.lock_entity_id), t) :
                    l2 \in
                    { update_sync_status(l1, ReadZwaveCodes(W, l1.lock_entity_id)) :
                        l1 \in { check_and_update_slot_validity(W.locks[f[1]], t).lock } } } } : TRUE

\* async_unload_entry: hass.data[DOMAIN].pop(entry.entry_id)
async_unload_entry(W, e) ==
    [W EXCEPT !.order = RemoveFromList(@, e),
              !.locks = Drop(@, {e})]

\* pin_code[:4] + "***" if pin_code else None, the pin argument of "Restoring slot ..."
MaskedPin(pin_code) ==
    IF ~Truthy(pin_code) THEN None
    ELSE Some(SubSeq(pin_code[1], 1, Min({4, Len(pin_code[1])})) \o <<"*", "*", "*">>)

\* the "Restoring slot %s: user=%s, pin=%s, active=%s" records of async_setup_entry, one for
\* every stored slot whose pin argument is not None
RestoreLogs(stored_data) ==
    IF stored_data = None THEN <<>>
    ELSE LET slots == stored_data[1].code_slots
             keys == SortedSeq({int(k) : k \in DOMAIN slots})
             shown == SelectSeq(keys, LAMBDA n : Truthy(slots[str(n)].pin_code))
         IN  [i \in 1..Len(shown) |->
                 LogRecord("Restoring slot", <<MaskedPin(slots[str(shown[i])].pin_code)[1]>>)]

\* async_setup_entry: the lock built and restored, stored in hass.data, and the first refresh
async_setup_entry(W, e, cfg, states, t) ==
    LET lock == RestoreLock(cfg[e], states, W.store[e])
        W1 == [W EXCEPT !.order = IF InList(e, @) THEN @ ELSE Append(@, e),
                        !.locks = Put(@, e, lock),
                        !.logs = @ \o RestoreLogs(W.store[e])]
    IN  coordinator_update(W1, e, cfg, t)

-----------------------------------------------------------------------------
(* services/management_services.py: lock settings and the parent/child links *)

\* bool(x) of an Optional entity id or name
TruthyId(opt) == opt # None /\ opt[1] # ""

\* ManagementServices._update_parent_child_relationships
update_parent_child_relationships(W, child_entity_id, old_parent_id, new_parent_id) ==
    LET o == IF TruthyId(old_parent_id) THEN FindByEntity(W, old_parent_id[1]) ELSE None
        W1 == IF o = None THEN W
              ELSE LET l == [W.locks[o[1]] EXCEPT
                                !.child_lock_ids = RemoveFromList(@, child_entity_id)]
                   IN  [W EXCEPT !.locks[o[1]] = l, !.store[o[1]] = Some(to_dict(l))]
        p == IF TruthyId(new_parent_id) THEN FindByEntity(W1, new_parent_id[1]) ELSE None
    IN  IF p = None THEN W1
        ELSE LET l == [W1.locks[p[1]] EXCEPT
                          !.child_lock_ids = IF InList(child_entity_id, @) THEN @
                                             ELSE Append(@, child_entity_id)]
             IN  [W1 EXCEPT !.locks[p[1]] = l, !.store[p[1]] = Some(to_dict(l))]

\* the arguments of update_lock_settings after entity_id, every one optional
NoSettings == [friendly_name |-> None, slot_count |-> None, is_main_lock |-> None, parent_lock_id |-> None]

\* ManagementServices.update_lock_settings, with datetime.now() = t
update_lock_settings(W, entity_id, u, cfg, t) ==
    LET e == FindByEntity(W, entity_id)
    IN  IF e = None THEN W
        ELSE
        LET x == e[1]
            lock == W.locks[x]
            nameUpd == TruthyId(u.friendly_name) /\ u.friendly_name[1] # lock.friendly_name
            la == IF nameUpd THEN [lock EXCEPT !.friendly_name = u.friendly_name[1]] ELSE lock
            wantResize == u.slot_count # None /\ u.slot_count[1] # 0 /\ u.slot_count[1] # la.slots
            inRange == wantResize /\ MinSlotCount <= u.slot_count[1] /\ u.slot_count[1] <= MaxSlotCount
            r == IF inRange THEN resize_slots(la, u.slot_count[1]) ELSE [lock |-> la, ret |-> FALSE]
            lb == r.lock
            kindUpd == u.is_main_lock # None /\ u.is_main_lock[1] # lb.is_main_lock
            lc == IF kindUpd
                  THEN [lb EXCEPT !.is_main_lock = u.is_main_lock[1],
                                  !.child_lock_ids = IF u.is_main_lock[1] THEN @ ELSE <<>>]
                  ELSE lb
            parentUpd == u.parent_lock_id # None /\ u.parent_lock_id # lc.parent_lock_id
            old_parent == lc.parent_lock_id
            ld == IF parentUpd
                  THEN [lc EXCEPT !.parent_lock_id =
                           IF TruthyId(u.parent_lock_id) THEN u.parent_lock_id ELSE None]
                  ELSE lc
            updated == nameUpd \/ r.ret \/ kindUpd \/ parentUpd
            W1 == [W EXCEPT !.found = TRUE, !.ret = updated, !.locks[x] = ld]
            W2 == IF parentUpd
                  THEN update_parent_child_relationships(W1, entity_id, old_parent, u.parent_lock_id)
                  ELSE W1
            W3 == [W2 EXCEPT !.store[x] = Some(to_dict(W2.locks[x]))]
        IN  IF updated THEN [coordinator_update(W3, x, cfg, t) EXCEPT !.ret = TRUE] ELSE W1

\* ManagementServices.remove_child_lock; the refresh it requests from the coordinator is
\* debounced and runs as a later tick
remove_child_lock(W, child_entity_id) ==
    LET e == FindByEntity(W, child_entity_id)
    IN  IF e = None THEN W
        ELSE IF ~TruthyId(W.locks[e[1]].parent_lock_id) THEN [W EXCEPT !.found = TRUE]
        ELSE
        LET x == e[1]
            old_parent_id == W.locks[x].parent_lock_id
            child_lock == [W.locks[x] EXCEPT !.is_main_lock = TRUE, !.parent_lock_id = None,
                                             !.child_lock_ids = <<>>]
            W1 == [W EXCEPT !.found = TRUE, !.ret = TRUE, !.locks[x] = child_lock]
            p == FindByEntity(W1, old_parent_id[1])
            W2 == IF p = None THEN W1
                  ELSE LET l == [W1.locks[p[1]] EXCEPT
                                    !.child_lock_ids = RemoveFromList(@, child_entity_id)]
                       IN  [W1 EXCEPT !.locks[p[1]] = l, !.store[p[1]] = Some(to_dict(l))]
        IN  [W2 EXCEPT !.store[x] = Some(to_dict(W2.locks[x])),
                       !.events = Append(@, [event |-> "smart_lock_manager_child_removed",
                                             entity_id |-> child_entity_id, slot_number |-> 0])]

-----------------------------------------------------------------------------
(* Service-call data as the handlers receive it *)

\* datetime.fromisoformat(str(raw)) of set_code_advanced: None when raw is falsy or unparsable
ParseDate(raw) ==
    IF raw = None \/ raw[1] = <<>> THEN None
    ELSE IF raw[1][1] = "iso" THEN Some(raw[1][2])
    ELSE None

\* the arguments set_code_advanced hands to lock.set_code
AdvancedArgs(data) ==
    [pin_code |-> data.usercode, user_name |-> data.code_slot_name,
     start_date |-> ParseDate(data.start_date), end_date |-> ParseDate(data.end_date),
     allowed_hours |-> data.allowed_hours, allowed_days |-> data.allowed_days,
     max_uses |-> data.max_uses, notify_on_use |-> data.notify_on_use]

\* the arguments set_code (basic) hands to lock.set_code
BasicArgs(usercode, code_slot_name) ==
    [DefaultArgs EXCEPT !.pin_code = Some(usercode), !.user_name = code_slot_name]

\* LockServices.set_code_advanced
LockServices_set_code_advanced(W, entity_id, code_slot, data, t) ==
    LockServices_set_code(W, entity_id, code_slot, AdvancedArgs(data), t)

\* a direct call of lock.increment_slot_usage on the lock of an entity (no handler saves it)
UseSlot(W, entity_id, slot_number, t) ==
    LET e == FindByEntity(W, entity_id)
    IN  IF e = None THEN W
        ELSE LET r == increment_slot_usage(W.locks[e[1]], slot_number, t)
             IN  [W EXCEPT !.found = TRUE, !.ret = r.ret, !.locks[e[1]] = r.lock]

\* a queued service call run by the event loop
RunCall(W, call, outcome) ==
    IF call.svc = "sync_slot_to_zwave"
    THEN sync_slot_to_zwave(W, call.entity_id, call.slot, call.action, outcome, None, outcome)
    ELSE IF call.svc = "clear_code"
    THEN LockServices_clear_code(W, call.entity_id, call.slot, outcome)
    ELSE sync_child_locks(W, call.entity_id)

\* the services _register_services and _register_advanced_services register
RegisteredServices ==
    {"set_code", "clear_code", "refresh_codes", "generate_package",
     "set_code_advanced", "enable_slot", "disable_slot", "reset_slot_usage", "resize_slots",
     "read_zwave_codes", "sync_slot_to_zwave", "sync_child_locks", "get_usage_stats",
     "update_lock_settings", "update_global_settings"}

\* the services async_unload_entry removes with the last instance
RemovedServices ==
    {"set_code", "clear_code", "refresh_codes", "generate_package",
     "set_code_advanced", "enable_slot", "disable_slot", "reset_slot_usage", "resize_slots",
     "sync_child_locks", "get_usage_stats"}

-----------------------------------------------------------------------------
(* The state machine *)

\* the config entry of the service specification
ServiceEntries ==
    [e1 |-> [lock_name |-> "A", lock_entity_id |-> "lock.a", slots |-> 2]]

\* the two config entries of the parent/child specification
ChildEntries ==
    [e1 |-> [lock_name |-> "A", lock_entity_id |-> "lock.a", slots |-> 2],
     e2 |-> [lock_name |-> "B", lock_entity_id |-> "lock.b", slots |-> 1]]

\* the single config entry of the sync specification: one slot more than the coordinator scans
SyncEntries ==
    [e1 |-> [lock_name |-> "A", lock_entity_id |-> "lock.a", slots |-> ScanSlots + 1]]

\* hass.states: every lock entity carries the friendly name its entry was created with
EntityStates(cfg) ==
    [x \in {cfg[e].lock_entity_id : e \in DOMAIN cfg} |->
        Some(cfg[CHOOSE e \in DOMAIN cfg : cfg[e].lock_entity_id = x].lock_name)]

NoCall == [op |-> "init", entity_id |-> "", slot |-> 0, arg |-> None, found |-> FALSE, ret |-> FALSE]

\* nothing loaded yet: empty hass.data, empty stores, physical locks holding no code
EmptyWorld(cfg) ==
    [order |-> <<>>, locks |-> <<>>, store |-> [e \in DOMAIN cfg |-> None],
     zwave |-> [x \in {cfg[e].lock_entity_id : e \in DOMAIN cfg} |-> <<>>],
     queue |-> <<>>, zcalls |-> <<>>, events |-> <<>>, logs |-> <<>>, found |-> FALSE, ret |-> FALSE]

RECURSIVE SetupAll(_, _, _, _, _)
\* async_setup_entry of the given entries, one after the other
SetupAll(W, es, cfg, states, t) ==
    IF es = <<>> THEN W
    ELSE SetupAll(async_setup_entry(W, Head(es), cfg, states, t), Tail(es), cfg, states, t)

\* the state once every entry of cfg has been set up at instant t
Loaded(cfg, t) ==
    SetupAll(EmptyWorld(cfg), SelectSeq(<<"e1", "e2">>, LAMBDA e : e \in DOMAIN cfg),
             cfg, EntityStates(cfg), t)

\* what a handler leaves behind becomes the next state
Commit(W, op, entity_id, slot, arg) ==
    /\ order' = W.order
    /\ locks' = W.locks
    /\ store' = W.store
    /\ zwave' = W.zwave
    /\ queue' = W.queue
    /\ zcalls' = W.zcalls
    /\ events' = W.events
    /\ logs' = W.logs
    /\ last' = [op |-> op, entity_id |-> entity_id, slot |-> slot, arg |-> arg,
                found |-> W.found, ret |-> W.ret]
    /\ UNCHANGED <<entries, hass_states, now, quiet, services, global_settings>>


\* the sampled service-call inputs
IsoString(t) == Some(<<"iso", t>>)
BadDateString == Some(<<"not a date">>)
\* set_code: every sampled PIN on slot 1, a valid PIN on slot MaxSlots, which the lock
\* holds only after a resize
SetCodeCalls ==
    {[slot |-> 1, usercode |-> p, name |-> Some("Ann")] :
        p \in {Pin1234, Pin123, Pin12a4, Pin9, PinSup2, PinEmpty}}
    \cup {[slot |-> MaxSlots, usercode |-> Pin1234, name |-> None]}
\* set_code_advanced: a schedule with every field set, and one with an unparsable date
AdvancedData ==
    {[usercode |-> Some(Pin5678), code_slot_name |-> None,
      start_date |-> IsoString(9), end_date |-> IsoString(33),
      allowed_hours |-> Some(<<9, 10>>), allowed_days |-> Some(<<0, 1>>),
      max_uses |-> 1, notify_on_use |-> TRUE],
     [usercode |-> Some(Pin5678), code_slot_name |-> Some("Bob"),
      start_date |-> BadDateString, end_date |-> None,
      allowed_hours |-> None, allowed_days |-> Some(<<>>),
      max_uses |-> -1, notify_on_use |-> FALSE]}
SlotNumbers == {1, MaxSlots}
SlotCounts == 0..MaxSlots
SettingsData ==
    {[NoSettings EXCEPT !.parent_lock_id = Some("lock.a")],
     [NoSettings EXCEPT !.parent_lock_id = Some("")]}
\* uses counted on one slot
MaxUses == 1

SetCode(entity_id, code_slot, usercode, code_slot_name) ==
    /\ ~quiet /\ Len(queue) <= MaxPending
    /\ Commit(LockServices_set_code(World, entity_id, code_slot,
                                    BasicArgs(usercode, code_slot_name), now),
              "set_code", entity_id, code_slot, BasicArgs(usercode, code_slot_name))

SetCodeAdvanced(entity_id, code_slot, data) ==
    /\ ~quiet /\ Len(queue) <= MaxPending
    /\ Commit(LockServices_set_code_advanced(World, entity_id, code_slot, data, now),
              "set_code_advanced", entity_id, code_slot, AdvancedArgs(data))

ClearCode(entity_id, code_slot, outcome) ==
    /\ ~quiet /\ Len(queue) <= MaxPending
    /\ Commit(LockServices_clear_code(World, entity_id, code_slot, outcome),
              "clear_code", entity_id, code_slot, None)

EnableSlot(entity_id, code_slot) ==
    /\ ~quiet /\ Len(queue) <= MaxPending
    /\ Commit(SlotServices_enable_slot(World, entity_id, code_slot),
              "enable_slot", entity_id, code_slot, None)

DisableSlot(entity_id, code_slot) ==
    /\ ~quiet /\ Len(queue) <= MaxPending
    /\ Commit(SlotServices_disable_slot(World, entity_id, code_slot),
              "disable_slot", entity_id, code_slot, None)

ResetSlotUsage(entity_id, code_slot) ==
    /\ ~quiet /\ Len(queue) <= MaxPending
    /\ Commit(SlotServices_reset_slot_usage(World, entity_id, code_slot),
              "reset_slot_usage", entity_id, code_slot, None)

ResizeSlots(entity_id, slot_count) ==
    /\ ~quiet /\ Len(queue) <= MaxPending
    /\ Commit(SlotServices_resize_slots(World, entity_id, slot_count),
              "resize_slots", entity_id, 0, slot_count)

UpdateLockSettings(entity_id, u) ==
    /\ ~quiet /\ Len(queue) <= MaxPending
    /\ Commit(update_lock_settings(World, entity_id, u, entries, now),
              "update_lock_settings", entity_id, 0, u)

\* a code of the slot is used at the lock
UseCode(entity_id, code_slot) ==
    /\ ~quiet /\ Len(queue) <= MaxPending
    /\ \E e \in DOMAIN locks :
          /\ locks[e].lock_entity_id = entity_id
          /\ code_slot \in DOMAIN locks[e].code_slots
          /\ locks[e].code_slots[code_slot].is_active
          /\ locks[e].code_slots[code_slot].use_count < MaxUses
    /\ Commit(UseSlot(World, entity_id, code_slot, now),
              "increment_slot_usage", entity_id, code_slot, None)

\* the event loop runs the oldest queued service call
RunQueued(outcome) ==
    /\ queue # <<>>
    /\ \E W \in {RunCall([World EXCEPT !.queue = Tail(@)], Head(queue), outcome)} :
          Commit(W, Head(queue).svc, Head(queue).entity_id, Head(queue).slot,
                 Some(Head(queue).action))

\* the 30 second refresh of the coordinator of a loaded entry
Tick(e) ==
    /\ e \in DOMAIN locks
    /\ Len(queue) <= MaxPending
    /\ \E W \in {coordinator_update(World, e, entries, now)} :
          Commit(W, "tick", entries[e].lock_entity_id, 0, None)

\* the entry is reloaded: unloaded, then set up again from its store
Restart(e) ==
    /\ ~quiet /\ Len(queue) <= MaxPending
    /\ e \in DOMAIN locks
    /\ Commit(async_setup_entry(async_unload_entry(World, e), e, entries, hass_states, now),
              "restart", entries[e].lock_entity_id, 0, None)

\* the user stops calling services
Quiesce ==
    /\ ~quiet
    /\ quiet' = TRUE
    /\ last' = [NoCall EXCEPT !.op = "quiesce"]
    /\ zcalls' = <<>>
    /\ events' = <<>>
    /\ logs' = <<>>
    /\ UNCHANGED <<entries, hass_states, order, locks, store, zwave, queue, now, services, global_settings>>

\* the state after the entries of cfg have been set up at instant t
InitWith(cfg, t) ==
    /\ entries = cfg
    /\ hass_states = EntityStates(cfg)
    /\ order = Loaded(cfg, t).order
    /\ locks = Loaded(cfg, t).locks
    /\ store = Loaded(cfg, t).store
    /\ zwave = Loaded(cfg, t).zwave
    /\ queue = Loaded(cfg, t).queue
    /\ now = t
    /\ quiet = FALSE
    /\ last = NoCall
    /\ zcalls = <<>>
    /\ events = <<>>
    /\ logs = <<>>
    /\ services = RegisteredServices
    /\ global_settings = FALSE

Init == InitWith(ServiceEntries, 9)

Next ==
    \/ \E c \in SetCodeCalls : SetCode("lock.a", c.slot, c.usercode, c.name)
    \/ \E d \in AdvancedData : SetCodeAdvanced("lock.a", 1, d)
    \/ \E n \in SlotNumbers : ClearCode("lock.a", n, "ok")
    \/ \E n \in SlotNumbers : EnableSlot("lock.a", n)
    \/ \E n \in SlotNumbers : DisableSlot("lock.a", n)
    \/ ResetSlotUsage("lock.a", 1)
    \/ UseCode("lock.a", 1)
    \/ RunQueued("ok")
    \/ Tick("e1")

\* the service specification: the code services on one lock, the coordinator and the event loop
Spec == Init /\ [][Next]_vars

NextSlots ==
    \/ \E n \in SlotNumbers : SetCode("lock.a", n, Pin1234, None)
    \/ \E n \in SlotNumbers : ClearCode("lock.a", n, "ok")
    \/ \E k \in SlotCounts : ResizeSlots("lock.a", k)
    \/ RunQueued("ok")
    \/ Tick("e1")
    \/ Restart("e1")

\* the slot-count specification: resizes and reloads of one lock
SpecSlots == Init /\ [][NextSlots]_vars

NextChild ==
    \/ SetCode("lock.a", 1, Pin1234, Some("Ann"))
    \/ \E d \in AdvancedData : SetCodeAdvanced("lock.a", 1, d)
    \/ ClearCode("lock.a", 1, "ok")
    \/ EnableSlot("lock.a", 1)
    \/ DisableSlot("lock.a", 1)
    \/ \E u \in SettingsData : UpdateLockSettings("lock.b", u)
    \/ RunQueued("ok")
    \/ \E e \in DOMAIN entries : Tick(e)

\* the parent/child specification: a main lock, a second lock that is made its child,
\* and the code services on the main lock
SpecChild == InitWith(ChildEntries, 9) /\ [][NextChild]_vars

\* the slots of the sync specification that services touch: one inside and one outside
\* the coordinator's scan
SyncSlots == {1, ScanSlots + 1}

NextSync ==
    \/ \E n \in SyncSlots : SetCode("lock.a", n, Pin1234, None)
    \/ \E n \in SyncSlots : DisableSlot("lock.a", n)
    \/ \E n \in SyncSlots : EnableSlot("lock.a", n)
    \/ RunQueued("ok")
    \/ Tick("e1")
    \/ Quiesce

\* the sync specification: every zwave_js call takes effect, the coordinator keeps ticking
\* and the event loop keeps running queued calls
FairSync ==
    /\ InitWith(SyncEntries, 9)
    /\ [][NextSync]_vars
    /\ WF_vars(Tick("e1"))
    /\ WF_vars(RunQueued("ok"))

\* the sampled slot states of the validity specification
SlotSamples ==
    {[CodeSlot(1) EXCEPT !.is_active = act, !.pin_code = pin,
                         !.start_date = sd, !.end_date = ed,
                         !.allowed_hours = hrs, !.allowed_days = days,
                         !.max_uses = mu, !.use_count = uc] :
        act \in BOOLEAN, pin \in {None, Some(PinEmpty), Some(Pin1234)},
        sd \in {None, Some(10)}, ed \in {None, Some(33)},
        hrs \in {None, Some(<<>>), Some(<<9>>)}, days \in {None, Some(<<>>), Some(<<0>>)},
        mu \in {-1, 0, 2}, uc \in {0, 1, 2}}

InitValid ==
    /\ entries = ServiceEntries
    /\ hass_states = EntityStates(ServiceEntries)
    /\ order = <<"e1">>
    /\ \E slot \in SlotSamples :
          locks = [e1 |-> [NewLock("A", "lock.a", 1, 1) EXCEPT !.code_slots[1] = slot]]
    /\ store = [e1 |-> None]
    /\ zwave = [x \in {"lock.a"} |-> <<>>]
    /\ queue = <<>>
    /\ now \in Instants
    /\ quiet = FALSE
    /\ last = NoCall
    /\ zcalls = <<>>
    /\ events = <<>>
    /\ logs = <<>>
    /\ services = RegisteredServices
    /\ global_settings = FALSE

\* slot.is_valid_now() is evaluated on slot 1
CheckValid ==
    /\ last.op # "is_valid_now"
    /\ last' = [NoCall EXCEPT !.op = "is_valid_now", !.entity_id = "lock.a", !.slot = 1,
                              !.arg = Some(now), !.found = TRUE,
                              !.ret = is_valid_now(locks["e1"].code_slots[1], now)]
    /\ UNCHANGED <<entries, hass_states, order, locks, store, zwave, queue, now, quiet,
                   zcalls, events, logs, services, global_settings>>

NextValid == CheckValid

\* the validity specification: is_valid_now applied to every sampled slot at every sampled instant
SpecValid == InitValid /\ [][NextValid]_vars

\* the slot counts the slot-count services are asked for: negative, zero, the smallest,
\* a larger one, and one above the limit
CountSamples == {-5, 0, MinSlotCount, MaxSlots, MaxSlotCount + 1}

NextCount ==
    \/ \E n \in SlotNumbers : SetCode("lock.a", n, Pin1234, None)
    \/ \E k \in CountSamples : ResizeSlots("lock.a", k)
    \/ \E k \in CountSamples :
          UpdateLockSettings("lock.a", [NoSettings EXCEPT !.slot_count = Some(k)])
    \/ RunQueued("ok")
    \/ Tick("e1")
    \/ Restart("e1")

\* the slot-limit specification: both services that change the slot count, asked for counts
\* inside and outside the limits
SpecCount == Init /\ [][NextCount]_vars

\* set_code_advanced in the reload specification: the sampled schedules and one whose
\* end date has already passed when it is set
ReloadData ==
    AdvancedData \cup
    {[usercode |-> Some(Pin5678), code_slot_name |-> Some("Bob"),
      start_date |-> None, end_date |-> IsoString(8),
      allowed_hours |-> None, allowed_days |-> None,
      max_uses |-> -1, notify_on_use |-> FALSE]}

NextReload ==
    \/ SetCode("lock.a", 1, Pin1234, Some("Ann"))
    \/ \E d \in ReloadData : SetCodeAdvanced("lock.a", 1, d)
    \/ EnableSlot("lock.a", 1)
    \/ DisableSlot("lock.a", 1)
    \/ UseCode("lock.a", 1)
    \/ ResizeSlots("lock.a", 2)
    \/ RunQueued("ok")
    \/ Tick("e1")
    \/ Restart("e1")

\* the reload specification: one lock saved by both save paths and set up again from its store
SpecReload == Init /\ [][NextReload]_vars

\* the sampled slots of the expiry specification: with and without a PIN (active only
\* with one), an end date, allowed hours and a usage limit
ExpirySamples(n) ==
    {slot \in
        {[CodeSlot(n) EXCEPT !.is_active = act, !.pin_code = pin, !.end_date = ed,
                             !.allowed_hours = hrs, !.max_uses = mu, !.use_count = uc] :
            act \in BOOLEAN, pin \in {None, Some(Pin1234)}, ed \in {None, Some(33)},
            hrs \in {None, Some(<<9>>)}, mu \in {-1, 0, 2}, uc \in {0, 2}} :
        slot.is_active => slot.pin_code # None}

InitExpiry ==
    /\ entries = ServiceEntries
    /\ hass_states = EntityStates(ServiceEntries)
    /\ order = <<"e1">>
    /\ \E s1 \in ExpirySamples(1), s2 \in ExpirySamples(2) :
          locks = [e1 |-> [NewLock("A", "lock.a", 2, 1) EXCEPT !.code_slots[1] = s1,
                                                              !.code_slots[2] = s2]]
    /\ store = [e1 |-> None]
    /\ zwave = [x \in {"lock.a"} |-> <<>>]
    /\ queue = <<>>
    /\ now \in Instants
    /\ quiet = FALSE
    /\ last = NoCall
    /\ zcalls = <<>>
    /\ events = <<>>
    /\ logs = <<>>
    /\ services = RegisteredServices
    /\ global_settings = FALSE

\* lock.check_and_update_slot_validity() is called on the lock
CheckAndUpdate ==
    /\ locks' = [locks EXCEPT !["e1"] = check_and_update_slot_validity(locks["e1"], now).lock]
    /\ last' = [NoCall EXCEPT !.op = "check_and_update_slot_validity", !.entity_id = "lock.a",
                              !.arg = check_and_update_slot_validity(locks["e1"], now).changed_slots,
                              !.found = TRUE, !.ret = TRUE]
    /\ UNCHANGED <<entries, hass_states, order, store, zwave, queue, now, quiet, zcalls, events,
                   logs, services, global_settings>>

NextExpiry == CheckAndUpdate

\* the expiry specification: check_and_update_slot_validity applied to a lock of two
\* sampled slots at every sampled instant
SpecExpiry == InitExpiry /\ [][NextExpiry]_vars

-----------------------------------------------------------------------------
(* Properties *)

\* the lock an entity id resolves to in the current state
LockOf(entity_id) == locks[FindByEntity(World, entity_id)[1]]

\* a string of 4 to 8 decimal digits
DecimalPin(p) ==
    /\ Len(p) >= 4 /\ Len(p) <= 8
    /\ \A i \in 1..Len(p) : p[i] \in DecimalDigits

\* the slot should be programmed into the physical lock
Wanted(slot) == slot.is_active /\ Truthy(slot.pin_code) /\ is_valid_now(slot, now)

\* every configured slot agrees with the physical lock
Converged ==
    \A e \in DOMAIN locks : \A n \in DOMAIN locks[e].code_slots :
        LET slot == locks[e].code_slots[n]
            held == zwave[locks[e].lock_entity_id]
        IN  IF Wanted(slot) THEN n \in DOMAIN held /\ held[n] = slot.pin_code[1]
            ELSE n \notin DOMAIN held

\* C1: once the user has stopped calling services and every zwave_js call takes effect,
\* the coordinator's ticks eventually bring every configured slot of the lock into
\* agreement with the physical lock: it holds the slot's PIN if the slot is active, has a
\* PIN and is valid now, and no code in that slot otherwise.
ReconciliationConverges ==
    [](quiet => <>Converged)

\* C1: the user has stopped, nothing is queued, the coordinator has just ticked, and the
\* physical lock still holds a code in a disabled slot beyond the coordinator's scan
StrandedCodeBeyondScan ==
    /\ quiet /\ queue = <<>> /\ last.op = "tick"
    /\ \E n \in DOMAIN locks["e1"].code_slots :
          /\ n > ScanSlots
          /\ ~locks["e1"].code_slots[n].is_active
          /\ n \in DOMAIN zwave["lock.a"]

\* the seven conditions of validity
ValidConditions(slot, t) ==
    /\ slot.is_active
    /\ slot.pin_code # None /\ slot.pin_code[1] # <<>>
    /\ (slot.start_date = None \/ t >= slot.start_date[1])
    /\ (slot.end_date = None \/ t <= slot.end_date[1])
    /\ (slot.allowed_hours = None \/ slot.allowed_hours[1] = <<>>
           \/ InList(Hour(t), slot.allowed_hours[1]))
    /\ (slot.allowed_days = None \/ slot.allowed_days[1] = <<>>
           \/ InList(Weekday(t), slot.allowed_days[1]))
    /\ (slot.max_uses <= 0 \/ slot.use_count < slot.max_uses)

\* C2: is_valid_now() returns True exactly when the slot is active, has a non-empty PIN,
\* now lies within start_date..end_date where set, the hour and weekday are allowed where
\* a non-empty list is set, and the usage cap (if positive) is not reached.
IsValidNowIffConditions ==
    last.op = "is_valid_now" =>
        (last.ret <=> ValidConditions(locks["e1"].code_slots[1], last.arg[1]))

\* C2: is_valid_now() returned True at the very instant of the slot's end date, under a
\* usage cap not yet reached
ValidAtEndDate ==
    /\ last.op = "is_valid_now" /\ last.ret
    /\ locks["e1"].code_slots[1].end_date = last.arg
    /\ locks["e1"].code_slots[1].max_uses > locks["e1"].code_slots[1].use_count
    /\ locks["e1"].code_slots[1].use_count > 0

\* C3: every slot's pin_code is None or a string of 4 to 8 decimal digits; an empty PIN
\* is never stored.
PinCodesWellFormed ==
    \A e \in DOMAIN locks : \A n \in DOMAIN locks[e].code_slots :
        LET p == locks[e].code_slots[n].pin_code
        IN  p = None \/ DecimalPin(p[1])

\* C3: set_code has just returned True for an empty PIN and the slot holds it
EmptyPinStored ==
    /\ last.op = "set_code" /\ last.ret /\ last.arg.pin_code = Some(PinEmpty)
    /\ locks["e1"].code_slots[last.slot].pin_code = Some(PinEmpty)

\* one step of C4
SetCodeRejectsStep ==
    (/\ last'.op \in {"set_code", "set_code_advanced"}
     /\ last'.found
     /\ \/ last'.slot \notin DOMAIN LockOf(last'.entity_id).code_slots
        \/ /\ last'.arg.pin_code # None
           /\ last'.arg.pin_code[1] # <<>>
           /\ ~DecimalPin(last'.arg.pin_code[1]))
    => (~last'.ret /\ locks' = locks)

\* C4: set_code with a non-empty PIN that is not 4 to 8 decimal digits, or with a slot
\* number the lock does not have, returns False and leaves every slot as it was.
SetCodeRejectsInvalid ==
    [][SetCodeRejectsStep]_vars

\* C4: set_code has just returned True for a four-character PIN of superscript digits,
\* which str.isdigit accepts, and the slot holds it
NonDecimalPinStored ==
    /\ last.op = "set_code" /\ last.ret /\ last.arg.pin_code = Some(PinSup2)
    /\ ~DecimalPin(PinSup2)
    /\ locks["e1"].code_slots[last.slot].pin_code = Some(PinSup2)

\* one step of C5
SetCodeStoresStep ==
    (/\ last'.op \in {"set_code", "set_code_advanced"}
     /\ last'.found
     /\ last'.slot \in DOMAIN LockOf(last'.entity_id).code_slots
     /\ last'.arg.pin_code # None
     /\ DecimalPin(last'.arg.pin_code[1]))
    => LET e == FindByEntity(World, last'.entity_id)[1]
           before == locks[e].code_slots
           after == locks'[e].code_slots
           slot == after[last'.slot]
           a == last'.arg
       IN  /\ last'.ret
           /\ slot.pin_code = a.pin_code /\ slot.user_name = a.user_name
           /\ slot.start_date = a.start_date /\ slot.end_date = a.end_date
           /\ slot.allowed_hours = a.allowed_hours /\ slot.allowed_days = a.allowed_days
           /\ slot.max_uses = a.max_uses /\ slot.notify_on_use = a.notify_on_use
           /\ slot.is_active /\ ~slot.is_synced
           /\ slot.use_count = 0 /\ slot.last_used = None
           /\ DOMAIN after = DOMAIN before
           /\ \A n \in DOMAIN before : n # last'.slot => after[n] = before[n]

ClearCodeStep ==
    (last'.op = "clear_code" /\ last'.found)
    => LET e == FindByEntity(World, last'.entity_id)[1]
           n == last'.slot
       IN  IF n \in DOMAIN locks[e].code_slots
           THEN LET slot == locks'[e].code_slots[n]
                IN  /\ last'.ret
                    /\ slot.pin_code = None /\ slot.user_name = None
                    /\ ~slot.is_active
                    /\ slot.start_date = None /\ slot.end_date = None
                    /\ slot.allowed_hours = None /\ slot.allowed_days = None
                    /\ slot.max_uses = -1 /\ slot.use_count = 0
                    /\ ~slot.notify_on_use
                    /\ clear_code(locks'[e], n).ret
                    /\ clear_code(locks'[e], n).lock = locks'[e]
           ELSE ~last'.ret /\ locks' = locks

\* C6: clear_code on an existing slot returns True and leaves it with no PIN, no name,
\* inactive, no dates, no hours or days, max_uses -1, use_count 0 and notify_on_use
\* False; a second clear_code changes nothing; on a slot number the lock does not have it
\* returns False and changes nothing.
ClearCodeResetsSlot ==
    [][ClearCodeStep]_vars

\* C6: clear_code has just emptied a slot whose code the coordinator had tried to sync
ProgrammedSlotCleared ==
    /\ last.op = "clear_code" /\ last.ret
    /\ locks["e1"].code_slots[last.slot].pin_code = None
    /\ locks["e1"].code_slots[last.slot].sync_attempts > 0
    /\ zcalls # <<>>

\* the services that are to persist what they change
SavingServices ==
    {"set_code", "set_code_advanced", "clear_code", "enable_slot", "disable_slot",
     "reset_slot_usage", "resize_slots"}

\* the stored data is the slot data of the lock
StoreCurrent(stored_data, lock) ==
    /\ stored_data # None
    /\ stored_data[1].code_slots = SavedSlots(lock)

\* one step of C7
SavingStep ==
    (last'.op \in SavingServices /\ last'.ret /\ locks' # locks)
    => LET e == FindByEntity(World, last'.entity_id)[1]
       IN  StoreCurrent(store'[e], locks'[e])

\* C7: when one of the services set_code, set_code_advanced, clear_code, enable_slot,
\* disable_slot, reset_slot_usage or resize_slots has succeeded in changing a lock, the
\* entry's store holds the slot data of the lock when the call returns: the stored data
\* does not lag behind a completed call.
StoreNeverLags ==
    [][SavingStep]_vars

\* C7: reset_slot_usage has just succeeded and the store still holds a use count the lock
\* no longer has
StaleUseCountStored ==
    /\ last.op = "reset_slot_usage" /\ last.ret
    /\ locks["e1"].code_slots[last.slot].use_count = 0
    /\ store["e1"] # None
    /\ store["e1"][1].code_slots[str(last.slot)].use_count > 0

\* the services that change a slot's PIN or active state
PropagatingServices ==
    {"set_code", "set_code_advanced", "clear_code", "enable_slot", "disable_slot"}

\* the child locks of the lock of entry m among the locks lks
ChildrenOf(lks, m) ==
    {c \in DOMAIN lks :
        /\ InList(lks[c].lock_entity_id, lks[m].child_lock_ids)
        /\ lks[c].parent_lock_id = Some(lks[m].lock_entity_id)}

\* every child of the lock of entry m holds the parent's code data in the slots they share
ChildrenMatch(lks, m) ==
    \A c \in ChildrenOf(lks, m) :
        \A n \in (DOMAIN lks[m].code_slots) \cap (DOMAIN lks[c].code_slots) :
            CopiedFields(lks[c].code_slots[n]) = CopiedFields(lks[m].code_slots[n])

\* no child sync of the entity is queued in q
NoChildSyncPending(q, entity_id) ==
    \A i \in 1..Len(q) :
        ~(q[i].svc = "sync_child_locks" /\ q[i].entity_id = entity_id)

\* one step of C8
PropagationStep ==
    \A m \in DOMAIN locks :
        (/\ m \in DOMAIN locks'
         /\ locks'[m].is_main_lock
         /\ last'.entity_id = locks'[m].lock_entity_id
         /\ last'.ret
         /\ \/ last'.op = "sync_child_locks"
            \/ /\ last'.op \in PropagatingServices
               /\ locks'[m] # locks[m]
               /\ NoChildSyncPending(queue', last'.entity_id))
        => ChildrenMatch(locks', m)

\* C8: once set_code, set_code_advanced, clear_code, enable_slot or disable_slot has
\* changed a slot of a main lock and the child sync it triggers (if any) has run, every
\* child lock has the parent's pin_code, user_name, is_active, dates, hours, days,
\* max_uses and notify_on_use in the same-numbered slot.
ChildLocksFollowMainLock ==
    [][PropagationStep]_vars

\* C8: disable_slot has just succeeded on a main lock, no child sync is queued, and the
\* child still holds the slot active
ChildStillActive ==
    /\ last.op = "disable_slot" /\ last.ret /\ queue = <<>>
    /\ "e2" \in ChildrenOf(locks, "e1")
    /\ ~locks["e1"].code_slots[1].is_active
    /\ locks["e2"].code_slots[1].is_active
    /\ locks["e2"].code_slots[1].pin_code = locks["e1"].code_slots[1].pin_code

\* C9: the keys of every lock's code_slots are exactly start_from .. start_from + slots - 1
\* and every record's slot_number is its key.
SlotKeysMatchCount ==
    \A e \in DOMAIN locks :
        /\ DOMAIN locks[e].code_slots =
              locks[e].start_from..(locks[e].start_from + locks[e].slots - 1)
        /\ \A n \in DOMAIN locks[e].code_slots : locks[e].code_slots[n].slot_number = n

\* C9: the entry has just been reloaded and the lock holds more slots than its slot count
MoreSlotsThanCount ==
    /\ last.op = "restart"
    /\ Cardinality(DOMAIN locks["e1"].code_slots) > locks["e1"].slots

\* one step of C10
ResizeStep ==
    (last'.op = "resize_slots" /\ last'.found)
    => LET e == FindByEntity(World, last'.entity_id)[1]
           n == last'.arg
           lock == locks[e]
           after == locks'[e]
           kept == {k \in DOMAIN lock.code_slots : k < lock.start_from + n}
       IN  IF n >= 1
           THEN /\ last'.ret
                /\ after.slots = n
                /\ n < lock.slots =>
                      /\ DOMAIN after.code_slots = kept
                      /\ \A k \in kept : after.code_slots[k] = lock.code_slots[k]
                /\ n > lock.slots =>
                      /\ DOMAIN lock.code_slots \subseteq DOMAIN after.code_slots
                      /\ \A k \in DOMAIN lock.code_slots :
                            after.code_slots[k] = lock.code_slots[k]
                      /\ \A k \in (DOMAIN after.code_slots) \ (DOMAIN lock.code_slots) :
                            after.code_slots[k] = CodeSlot(k)
           ELSE ~last'.ret /\ locks' = locks

\* C10: resize_slots(n) with n >= 1 returns True and leaves slots = n; shrinking removes
\* exactly the slots numbered >= start_from + n and leaves the others unchanged; growing
\* leaves the existing slots unchanged and adds empty inactive slots; with n < 1 it
\* returns False and changes nothing.
ResizeSlotsContract ==
    [][ResizeStep]_vars

\* C10: resize_slots has just grown the lock and a slot that held a PIN is empty
GrowthErasedSlot ==
    /\ last.op = "resize_slots" /\ last.ret
    /\ store["e1"] # None
    /\ \E n \in DOMAIN locks["e1"].code_slots :
          /\ locks["e1"].code_slots[n].pin_code = None
          /\ str(n) \in DOMAIN store["e1"][1].code_slots
          /\ store["e1"][1].code_slots[str(n)].pin_code = None
          /\ n \in DOMAIN zwave["lock.a"]

\* the slot count a resize_slots or update_lock_settings request asked for, if any
RequestedCount(call) ==
    IF call.op = "resize_slots" THEN Some(call.arg)
    ELSE IF call.op = "update_lock_settings" THEN call.arg.slot_count
    ELSE None

\* every loaded lock has between MinSlotCount and MaxSlotCount slots
SlotCountInRange ==
    \A e \in DOMAIN locks : MinSlotCount <= locks[e].slots /\ locks[e].slots <= MaxSlotCount

\* one step of C11
SlotCountStep ==
    (/\ RequestedCount(last') # None
     /\ last'.found
     /\ (RequestedCount(last')[1] < MinSlotCount \/ RequestedCount(last')[1] > MaxSlotCount))
    => (~last'.ret /\ locks' = locks)

\* C11: a resize_slots or update_lock_settings request whose slot count is outside 1..50
\* is refused and leaves the lock, its slot count and its slot map as they were, and every
\* lock keeps between 1 and 50 slots.
SlotCountStaysInRange ==
    []SlotCountInRange /\ [][SlotCountStep]_vars

\* C11: update_lock_settings has just been refused a count above the limit on a lock
\* that was resized before and has its last slot programmed
OversizeCountRefused ==
    /\ last.op = "update_lock_settings" /\ last.found /\ ~last.ret
    /\ last.arg.slot_count = Some(MaxSlotCount + 1)
    /\ locks["e1"].slots = MaxSlots
    /\ locks["e1"].code_slots[MaxSlots].pin_code = Some(Pin1234)

\* the slot fields that are saved and restored, without is_active
ScheduleAndUsage(slot) ==
    [pin_code |-> slot.pin_code, user_name |-> slot.user_name,
     start_date |-> slot.start_date, end_date |-> slot.end_date,
     allowed_hours |-> slot.allowed_hours, allowed_days |-> slot.allowed_days,
     max_uses |-> slot.max_uses, use_count |-> slot.use_count,
     notify_on_use |-> slot.notify_on_use]

\* an entry whose store holds the lock as it is has just been set up again
ReloadedFromCurrentStore(e) ==
    /\ last'.op = "restart"
    /\ e \in DOMAIN locks /\ locks[e].lock_entity_id = last'.entity_id
    /\ StoreCurrent(store[e], locks[e])

\* C12 as stated: setting an entry up again from the data saved for its lock gives every
\* saved slot the pin_code, user_name, is_active, start_date, end_date, allowed_hours,
\* allowed_days, max_uses, use_count and notify_on_use it had when it was saved.
ReloadStepAsStated ==
    \A e \in DOMAIN locks :
        ReloadedFromCurrentStore(e) =>
            \A n \in DOMAIN locks[e].code_slots :
                /\ n \in DOMAIN locks'[e].code_slots
                /\ ScheduleAndUsage(locks'[e].code_slots[n]) = ScheduleAndUsage(locks[e].code_slots[n])
                /\ locks'[e].code_slots[n].is_active = locks[e].code_slots[n].is_active

ReloadStep ==
    \A e \in DOMAIN locks :
        ReloadedFromCurrentStore(e) =>
            \A n \in DOMAIN locks[e].code_slots :
                /\ n \in DOMAIN locks'[e].code_slots
                /\ ScheduleAndUsage(locks'[e].code_slots[n]) = ScheduleAndUsage(locks[e].code_slots[n])
                /\ locks'[e].code_slots[n].is_active =
                      (locks[e].code_slots[n].is_active /\ ~should_disable(locks[e].code_slots[n], now))

EnableSlotStep ==
    (last'.op = "enable_slot" /\ last'.found) =>
        LET e == FindByEntity(World, last'.entity_id)[1]
            n == last'.slot
        IN  IF n \in DOMAIN locks[e].code_slots /\ Truthy(locks[e].code_slots[n].pin_code)
            THEN /\ last'.ret
                 /\ locks' = [locks EXCEPT ![e].code_slots[n].is_active = TRUE]
            ELSE /\ ~last'.ret
                 /\ locks' = locks

\* C13: enable_slot on an existing slot that has a PIN returns True and sets is_active
\* True, leaving pin_code, user_name, schedule and usage data (and every other slot) as
\* they were; on a slot without a PIN, or a slot number the lock does not have, it
\* returns False and changes nothing.
EnableSlotContract ==
    [][EnableSlotStep]_vars

\* C13: enable_slot has just succeeded on a scheduled slot whose code had been used
UsedSlotEnabled ==
    /\ last.op = "enable_slot" /\ last.ret
    /\ locks["e1"].code_slots[last.slot].is_active
    /\ locks["e1"].code_slots[last.slot].use_count > 0
    /\ locks["e1"].code_slots[last.slot].start_date # None
    /\ locks["e1"].code_slots[last.slot].pin_code = Some(Pin5678)

\* the status of a slot as get_status reports it at instant t
StatusOf(slot, t) == get_status(slot, is_valid_now(slot, t), t)

\* C14, the call: disable_slot on an existing slot returns True, sets is_active False,
\* is_synced False and sync_attempts 0 and keeps every other field; a slot with a PIN is
\* then DISABLING
DisableSlotStep ==
    (last'.op = "disable_slot" /\ last'.found) =>
        LET e == FindByEntity(World, last'.entity_id)[1]
            n == last'.slot
        IN  n \in DOMAIN locks[e].code_slots =>
                /\ last'.ret
                /\ locks' = [locks EXCEPT ![e].code_slots[n] =
                                [@ EXCEPT !.is_active = FALSE, !.is_synced = FALSE,
                                          !.sync_attempts = 0]]
                /\ Truthy(locks[e].code_slots[n].pin_code) =>
                       StatusOf(locks'[e].code_slots[n], now') = "DISABLING"

\* C14, afterwards: while no service programs or enables the slot, a DISABLING slot stays
\* DISABLING until the lock's absence of a code is recorded (is_synced), which only a
\* coordinator tick or a sync call does, and it is DISABLED from that step
DisablingStep ==
    \A e \in DOMAIN locks : \A n \in DOMAIN locks[e].code_slots :
        (/\ StatusOf(locks[e].code_slots[n], now) = "DISABLING"
         /\ e \in DOMAIN locks' /\ n \in DOMAIN locks'[e].code_slots
         /\ locks'[e].code_slots[n].pin_code = locks[e].code_slots[n].pin_code
         /\ locks'[e].code_slots[n].is_active = locks[e].code_slots[n].is_active)
        => /\ locks'[e].code_slots[n].is_synced => last'.op \in {"tick", "sync_slot_to_zwave"}
           /\ StatusOf(locks'[e].code_slots[n], now') =
                 (IF locks'[e].code_slots[n].is_synced THEN "DISABLED" ELSE "DISABLING")

\* C14: disable_slot on an existing slot sets is_active False, is_synced False and
\* sync_attempts 0 and keeps pin_code, user_name, schedule and usage data; a slot with a
\* PIN is DISABLING from then until a coordinator tick or sync call records that the
\* physical lock holds no code for it, and DISABLED from that step.
DisableSlotContract ==
    [][DisableSlotStep /\ DisablingStep]_vars

\* C14: a queued sync call has just cleared the code of a disabled slot from the physical
\* lock and the slot, still holding its PIN, is DISABLED
DisabledAfterClear ==
    /\ last.op = "sync_slot_to_zwave" /\ last.arg = Some("disable")
    /\ Len(zcalls) = 1 /\ zcalls[1].svc = "clear_lock_usercode"
    /\ Truthy(locks["e1"].code_slots[last.slot].pin_code)
    /\ last.slot \notin DOMAIN zwave["lock.a"]
    /\ StatusOf(locks["e1"].code_slots[last.slot], now) = "DISABLED"

\* the slot is due for disabling at instant t: its end date is in the past, or it has a
\* usage limit that is used up
DueForDisabling(slot, t) ==
    \/ slot.end_date # None /\ t > slot.end_date[1]
    \/ slot.max_uses > 0 /\ slot.use_count >= slot.max_uses

\* one step of C15
ExpiryStep ==
    last'.op = "check_and_update_slot_validity" =>
        \A n \in DOMAIN locks["e1"].code_slots :
            LET before == locks["e1"].code_slots[n]
                after == locks'["e1"].code_slots[n]
            IN  /\ ~(after.is_active /\ DueForDisabling(after, now))
                /\ (before.is_active /\ ~after.is_active) => InList(n, last'.arg)
                /\ ~DueForDisabling(before, now) => after = before

\* C15: after check_and_update_slot_validity returns, no slot is both active and due for
\* disabling; every slot it deactivated is in the returned list; and every slot that was
\* not due for disabling keeps its is_active value and all its other fields.
ExpiredSlotsDisabled ==
    [][ExpiryStep]_vars

\* C15: the call has just deactivated slot 1, which was due, and returned it, and slot 2,
\* active and outside its allowed hours but not due, is still active
DueSlotDisabledOtherKept ==
    /\ last.op = "check_and_update_slot_validity"
    /\ ~locks["e1"].code_slots[1].is_active /\ InList(1, last.arg)
    /\ DueForDisabling(locks["e1"].code_slots[1], now)
    /\ locks["e1"].code_slots[2].is_active
    /\ ~is_valid_now(locks["e1"].code_slots[2], now)
    /\ ~DueForDisabling(locks["e1"].code_slots[2], now)

-----------------------------------------------------------------------------
(* C16: update_sync_status on sampled slots and sampled Z-Wave readings *)

\* slot n in every combination of the fields update_sync_status reads or writes
SyncSamples(n) ==
    {[CodeSlot(n) EXCEPT !.is_active = act, !.pin_code = pin, !.is_synced = syn,
                         !.sync_attempts = tries.attempts, !.sync_error = tries.error] :
        act \in BOOLEAN, pin \in {None, Some(Pin1234), Some(PinEmpty)}, syn \in BOOLEAN,
        tries \in {[attempts |-> 0, error |-> None],
                   [attempts |-> 3, error |-> Some("zwave_js call failed")]}}

\* the zwave_codes argument: for each slot no entry, the PIN 1234, another PIN, or an
\* entry whose code is the empty string
ZwaveSamples ==
    UNION {[D -> {Pin1234, Pin5678, PinEmpty}] : D \in SUBSET {1, 2}}

InitSyncStatus ==
    /\ entries = ServiceEntries
    /\ hass_states = EntityStates(ServiceEntries)
    /\ order = <<"e1">>
    /\ \E s1 \in SyncSamples(1), s2 \in SyncSamples(2) :
          locks = [e1 |-> [NewLock("A", "lock.a", 2, 1) EXCEPT !.code_slots[1] = s1,
                                                              !.code_slots[2] = s2]]
    /\ store = [e1 |-> None]
    /\ \E Z \in ZwaveSamples : zwave = [x \in {"lock.a"} |-> Z]
    /\ queue = <<>>
    /\ now = 9
    /\ quiet = FALSE
    /\ last = NoCall
    /\ zcalls = <<>>
    /\ events = <<>>
    /\ logs = <<>>
    /\ services = RegisteredServices
    /\ global_settings = FALSE

\* lock.update_sync_status(zwave_codes) is called on the lock; the slots as they were
\* before the call are kept in last.arg
UpdateSyncStatus ==
    /\ locks' = [locks EXCEPT !["e1"] = update_sync_status(locks["e1"], zwave["lock.a"])]
    /\ last' = [NoCall EXCEPT !.op = "update_sync_status", !.entity_id = "lock.a",
                              !.arg = Some(locks["e1"].code_slots),
                              !.found = TRUE, !.ret = TRUE]
    /\ UNCHANGED <<entries, hass_states, order, store, zwave, queue, now, quiet, zcalls, events,
                   logs, services, global_settings>>

NextSyncStatus == UpdateSyncStatus

SpecSyncStatus == InitSyncStatus /\ [][NextSyncStatus]_vars

\* what the claim expects is_synced to be for a slot, given the code Z holds for it
ExpectedSynced(slot, zwave_code) ==
    IF slot.is_active /\ Truthy(slot.pin_code)
    THEN zwave_code = slot.pin_code
    ELSE ~Truthy(zwave_code)

SyncStatusStep ==
    last'.op = "update_sync_status" =>
        \A n \in DOMAIN locks["e1"].code_slots :
            LET before == locks["e1"].code_slots[n]
                after == locks'["e1"].code_slots[n]
            IN  /\ after.is_synced = ExpectedSynced(before, ZwaveCode(zwave["lock.a"], n))
                /\ after.is_synced => after.sync_attempts = 0 /\ after.sync_error = None
                /\ after.is_active = before.is_active /\ after.pin_code = before.pin_code

\* C16: after update_sync_status(Z) every slot that is active with a PIN is synced exactly
\* when Z's code for the slot equals the PIN, every other slot is synced exactly when Z
\* holds no code for it, and a slot marked synced has sync_attempts 0 and no sync_error.
UpdateSyncStatusContract == [][SyncStatusStep]_vars

\* slot 1 had failed attempts and an error, Z holds its PIN, and it came out synced and
\* reset; slot 2 is inactive while Z still holds a code for it, and it came out unsynced
FailedSlotSyncedAndReset ==
    /\ last.op = "update_sync_status"
    /\ last.arg[1][1].sync_attempts > 0 /\ last.arg[1][1].sync_error # None
    /\ ~last.arg[1][1].is_synced
    /\ locks["e1"].code_slots[1].is_active
    /\ Truthy(locks["e1"].code_slots[1].pin_code)
    /\ locks["e1"].code_slots[1].pin_code = ZwaveCode(zwave["lock.a"], 1)
    /\ locks["e1"].code_slots[1].is_synced
    /\ locks["e1"].code_slots[1].sync_attempts = 0
    /\ locks["e1"].code_slots[1].sync_error = None
    /\ ~locks["e1"].code_slots[2].is_active
    /\ 2 \in DOMAIN zwave["lock.a"]
    /\ ~locks["e1"].code_slots[2].is_synced

-----------------------------------------------------------------------------
(* C17..C20: sync_slot_to_zwave called as a service *)

\* the outcomes of one zwave_js call
Outcomes == {"ok", "raises"}

\* what the 'auto' branch can read as the code the lock holds in the slot.  The read goes
\* through zwave_js_server, which is not part of this repository: every result the branch
\* distinguishes is drawn (nothing read, an exception, the slot's own code, another code)
CodesRead == {None, ReadFails, Some(Pin1234), Some(Pin5678)}

\* the sampled calls of the service on slot 1: every action with every outcome; for 'auto'
\* every code read and, where a code is read, every outcome of the clear before the set
SyncCalls ==
    {c \in [action : {"enable", "disable", "auto"}, current_code : CodesRead,
            clear_outcome : Outcomes, outcome : Outcomes] :
        /\ c.action # "auto" => c.current_code = None
        /\ c.current_code \in {None, ReadFails} => c.clear_outcome = "ok"}

\* the service call smart_lock_manager.sync_slot_to_zwave
SyncSlotToZwave(entity_id, code_slot, action, current_code, clear_outcome, outcome) ==
    /\ ~quiet /\ Len(queue) <= MaxPending
    /\ Commit(sync_slot_to_zwave(World, entity_id, code_slot, action, outcome,
                                 current_code, clear_outcome),
              "sync_slot_to_zwave", entity_id, code_slot,
              [action |-> action, current_code |-> current_code,
               clear_outcome |-> clear_outcome, outcome |-> outcome,
               slot |-> IF \E x \in DOMAIN locks :
                              /\ locks[x].lock_entity_id = entity_id
                              /\ code_slot \in DOMAIN locks[x].code_slots
                        THEN Some(locks[CHOOSE x \in DOMAIN locks :
                                            locks[x].lock_entity_id = entity_id].code_slots[code_slot])
                        ELSE None])

NextZwave ==
    \/ \E p \in {Pin1234, PinSup2, PinEmpty} : SetCode("lock.a", 1, p, Some("Ann"))
    \/ \E n \in 1..2 : EnableSlot("lock.a", n)
    \/ DisableSlot("lock.a", 1)
    \/ \E c \in SyncCalls :
          SyncSlotToZwave("lock.a", 1, c.action, c.current_code, c.clear_outcome, c.outcome)
    \/ \E n \in 2..MaxSlots, action \in {"enable", "disable", "auto"} :
          SyncSlotToZwave("lock.a", n, action, None, "ok", "ok")
    \/ SyncSlotToZwave("lock.none", 1, "auto", None, "ok", "ok")

\* the service specification of sync_slot_to_zwave: codes are set, enabled and disabled on
\* a lock of two slots, and the service is called with every action, on slots the lock has
\* and on one it has not, with every outcome of the read and of the zwave_js calls
SpecZwave == Init /\ [][NextZwave]_vars

\* the step is a call of the service on a slot the lock has
SyncStepOn(entity_id) ==
    /\ last'.op = "sync_slot_to_zwave"
    /\ last'.entity_id = entity_id
    /\ last'.arg.slot # None

SyncSetStep ==
    SyncStepOn("lock.a") =>
        LET before == last'.arg.slot[1]
            after == locks'["e1"].code_slots[last'.slot]
        IN  /\ \A i \in 1..Len(zcalls') :
                  zcalls'[i].svc = "set_lock_usercode" =>
                      /\ zcalls'[i].usercode # None
                      /\ DecimalPin(zcalls'[i].usercode[1])
                      /\ zcalls'[i].usercode = before.pin_code
            /\ (/\ last'.arg.action \in {"enable", "auto"}
                /\ before.is_active /\ Truthy(before.pin_code)
                /\ ~DecimalPin(before.pin_code[1]))
               => /\ zcalls' = <<>>
                  /\ ~after.is_synced
                  /\ after.sync_error = PinError(before.pin_code[1])
                  /\ after.sync_error # None

\* C17: every set_lock_usercode issued by sync_slot_to_zwave carries a usercode of 4 to 8
\* decimal digits equal to the slot's pin_code, and when the PIN of an active slot fails
\* that check no Z-Wave call is made, is_synced becomes False and sync_error records the
\* validation failure.
SetCallsCarryValidPin == [][SyncSetStep]_vars

\* a set_lock_usercode call went out whose usercode is not made of decimal digits
NonDecimalPinSentToLock ==
    /\ last.op = "sync_slot_to_zwave"
    /\ \E i \in 1..Len(zcalls) :
          /\ zcalls[i].svc = "set_lock_usercode"
          /\ ~DecimalPin(zcalls[i].usercode[1])
    /\ locks["e1"].code_slots[last.slot].is_synced

\* one call record as ZwaveCall logs it
ZCall(svc, entity_id, slot, usercode) ==
    [svc |-> svc, entity_id |-> entity_id, slot |-> slot, usercode |-> usercode]

SyncMappingStep ==
    SyncStepOn("lock.a") =>
        LET before == last'.arg.slot[1]
            action == last'.arg.action
            wanted == before.is_active /\ Truthy(before.pin_code)
            one_clear == <<ZCall("clear_lock_usercode", "lock.a", last'.slot, None)>>
            one_set == <<ZCall("set_lock_usercode", "lock.a", last'.slot, before.pin_code)>>
        IN  /\ action = "disable" => zcalls' = one_clear
            /\ (action = "enable" /\ wanted /\ PinError(before.pin_code[1]) = None)
                  => zcalls' = one_set
            /\ (action = "auto" /\ ~wanted) => zcalls' = one_clear

\* C18: 'disable' issues exactly one clear_lock_usercode for the entity and slot and no
\* set; 'enable' on a slot that is active with a valid PIN issues exactly one
\* set_lock_usercode with that PIN and no clear; 'auto' on a slot that is inactive or has no
\* PIN issues exactly one clear_lock_usercode and no set.
SyncActionsMapToCalls == [][SyncMappingStep]_vars

\* 'auto' was called on a slot that holds a PIN and is disabled: one clear went out
AutoClearedDisabledSlot ==
    /\ last.op = "sync_slot_to_zwave"
    /\ last.arg.action = "auto"
    /\ last.arg.slot # None
    /\ ~last.arg.slot[1].is_active
    /\ Truthy(last.arg.slot[1].pin_code)
    /\ zcalls = <<ZCall("clear_lock_usercode", "lock.a", last.slot, None)>>

\* the read of the 'auto' branch reports a code other than the slot's PIN
ReadsDifferentCode(current_code, slot) ==
    /\ current_code # ReadFails
    /\ Truthy(current_code)
    /\ current_code # slot.pin_code

SyncAutoStep ==
    (/\ SyncStepOn("lock.a")
     /\ last'.arg.action = "auto"
     /\ last'.arg.slot[1].is_active
     /\ Truthy(last'.arg.slot[1].pin_code)
     /\ PinError(last'.arg.slot[1].pin_code[1]) = None)
    => LET before == last'.arg.slot[1]
           the_set == ZCall("set_lock_usercode", "lock.a", last'.slot, before.pin_code)
           the_clear == ZCall("clear_lock_usercode", "lock.a", last'.slot, None)
       IN  /\ zcalls' # <<>>
           /\ zcalls'[Len(zcalls')] = the_set
           /\ ReadsDifferentCode(last'.arg.current_code, before)
                 => \E i \in 1..(Len(zcalls') - 1) : zcalls'[i] = the_clear
           /\ last'.arg.current_code = ReadFails => zcalls' = <<the_set>>

\* C19: 'auto' on a slot that is active with a valid PIN ends with a set_lock_usercode
\* carrying the slot's PIN; when the code read from the lock for the slot is a different
\* one, a clear_lock_usercode for the slot goes out strictly before that set; and when
\* the read fails the set is still issued.
AutoSetsPinLast == [][SyncAutoStep]_vars

\* 'auto' read another code in the slot: the clear went out, it raised, and the set with
\* the slot's PIN followed
OldCodeClearedBeforeSet ==
    /\ last.op = "sync_slot_to_zwave"
    /\ last.arg.action = "auto"
    /\ last.arg.slot # None
    /\ ReadsDifferentCode(last.arg.current_code, last.arg.slot[1])
    /\ last.arg.clear_outcome = "raises"
    /\ Len(zcalls) = 2
    /\ zcalls[1] = ZCall("clear_lock_usercode", "lock.a", last.slot, None)
    /\ zcalls[2] = ZCall("set_lock_usercode", "lock.a", last.slot, last.arg.slot[1].pin_code)
    /\ last.arg.slot[1].pin_code = Some(Pin1234)

\* one of the zwave_js calls the handler issued raised: the call it ends with, or the
\* clear it issued before the set
SomeCallRaised(arg, calls) ==
    \/ calls # <<>> /\ arg.outcome = "raises"
    \/ Len(calls) = 2 /\ arg.clear_outcome = "raises"

SyncOutcomeStep ==
    SyncStepOn("lock.a") =>
        LET after == locks'["e1"].code_slots[last'.slot]
        IN  /\ last'.ret
            /\ IF SomeCallRaised(last'.arg, zcalls')
               THEN ~after.is_synced /\ after.sync_error = CallError("raises")
               ELSE after.is_synced /\ after.sync_error = None

\* C20: sync_slot_to_zwave returns normally whatever happens; if a Z-Wave call raises the
\* slot ends with is_synced False and sync_error holding the error message, and if the
\* Z-Wave calls succeed it ends with is_synced True and sync_error cleared.
SyncRecordsCallFailure == [][SyncOutcomeStep]_vars

\* the clear before the set raised, the set went through, and the slot is marked synced
\* with no error recorded
FailedClearLeftSlotSynced ==
    /\ last.op = "sync_slot_to_zwave"
    /\ last.arg.action = "auto"
    /\ Len(zcalls) = 2
    /\ zcalls[1].svc = "clear_lock_usercode"
    /\ last.arg.clear_outcome = "raises"
    /\ last.arg.outcome = "ok"
    /\ locks["e1"].code_slots[last.slot].is_synced
    /\ locks["e1"].code_slots[last.slot].sync_error = None

-----------------------------------------------------------------------------
(* C21: what a service call leaves alone *)

\* the entity ids a service call can name: the two loaded locks and one no lock has
EntityIds == {"lock.a", "lock.b", "lock.none"}

\* the service call smart_lock_manager.sync_child_locks
SyncChildLocks(entity_id) ==
    /\ ~quiet /\ Len(queue) <= MaxPending
    /\ Commit(sync_child_locks(World, entity_id), "sync_child_locks", entity_id, 0, None)

NextFrame ==
    \/ \E x \in EntityIds : SetCode(x, 1, Pin1234, Some("Ann"))
    \/ \E d \in AdvancedData : SetCodeAdvanced("lock.none", 1, d)
    \/ \E x \in {"lock.a", "lock.none"} : ClearCode(x, 1, "ok")
    \/ EnableSlot("lock.none", 1)
    \/ \E x \in {"lock.a", "lock.none"} : DisableSlot(x, 1)
    \/ ResetSlotUsage("lock.none", 1)
    \/ ResizeSlots("lock.none", 2)
    \/ \E x \in {"lock.b", "lock.none"}, u \in SettingsData : UpdateLockSettings(x, u)
    \/ \E x \in EntityIds : SyncChildLocks(x)
    \/ \E x \in EntityIds, n \in {1, MaxSlots} : SyncSlotToZwave(x, n, "auto", None, "ok", "ok")
    \/ RunQueued("ok")

\* the frame specification: lock.a and lock.b loaded, lock.b made a child of lock.a and
\* released again, and every service called on both of them and on an entity that no lock
\* manages
SpecFrame == InitWith(ChildEntries, 9) /\ [][NextFrame]_vars

\* the entries whose lock has the entity id
Managing(entity_id) == {x \in DOMAIN locks : locks[x].lock_entity_id = entity_id}

\* the operations of last.op that are service calls
ServiceOps ==
    {"set_code", "set_code_advanced", "clear_code", "enable_slot", "disable_slot",
     "reset_slot_usage", "resize_slots", "update_lock_settings", "sync_child_locks",
     "sync_slot_to_zwave"}

\* no slot of the lock of entry x changes in the step
SlotsKept(x) == x \in DOMAIN locks' /\ locks'[x].code_slots = locks[x].code_slots

FrameStep ==
    last'.op \in ServiceOps =>
        LET E == last'.entity_id
            unmanaged == Managing(E) = {}
            no_such_slot ==
                /\ last'.op = "sync_slot_to_zwave"
                /\ \A x \in Managing(E) : last'.slot \notin DOMAIN locks[x].code_slots
            children == {x \in DOMAIN locks :
                            \E m \in Managing(E) :
                                InList(locks[x].lock_entity_id, locks[m].child_lock_ids)}
        IN  /\ (unmanaged \/ no_such_slot)
                  => (\A x \in DOMAIN locks : SlotsKept(x)) /\ zcalls' = <<>>
            /\ \A x \in DOMAIN locks \ Managing(E) :
                  \/ SlotsKept(x)
                  \/ last'.op = "sync_child_locks" /\ x \in children

-----------------------------------------------------------------------------
(* C22: PINs in log records *)

\* the text holds the PIN as a run of consecutive characters
ContainsPin(text, pin) ==
    /\ pin # <<>>
    /\ \E i \in 0..(Len(text) - Len(pin)) : SubSeq(text, i + 1, i + Len(pin)) = pin

\* the PINs held by the slots of the given locks
SlotPins(ls) ==
    UNION {{ls[x].code_slots[n].pin_code[1] :
               n \in {m \in DOMAIN ls[x].code_slots : Truthy(ls[x].code_slots[m].pin_code)}} :
           x \in DOMAIN ls}

\* the PIN handed to set_code or set_code_advanced, when there is one
GivenPin(call) ==
    IF call.op \in {"set_code", "set_code_advanced"} /\ Truthy(call.arg.pin_code)
    THEN {call.arg.pin_code[1]} ELSE {}

LoggingOps == {"restart", "set_code", "set_code_advanced", "sync_slot_to_zwave"}

NoPinLoggedStep ==
    last'.op \in LoggingOps =>
        \A i \in 1..Len(logs') : \A j \in 1..Len(logs'[i].args) :
            \A pin \in SlotPins(locks) \cup SlotPins(locks') \cup GivenPin(last') :
                ~ContainsPin(logs'[i].args[j], pin)

\* C22: no log record emitted during setup/restore, set_code, set_code_advanced or
\* sync_slot_to_zwave contains the PIN of a slot, the old one or the new one, in plaintext.
NoPinInLogs == [][NoPinLoggedStep]_vars

\* the entry was reloaded while slot 1 held a four-digit PIN, and the "Restoring slot"
\* record carries that PIN in full in front of the asterisks
StoredPinLoggedOnRestore ==
    /\ last.op = "restart"
    /\ locks["e1"].code_slots[1].pin_code = Some(Pin1234)
    /\ \E i \in 1..Len(logs) :
          /\ logs[i].site = "Restoring slot"
          /\ ContainsPin(logs[i].args[1], Pin1234)

-----------------------------------------------------------------------------
(* C23: codes the physical lock holds in slots the lock object does not have *)

NextRogue ==
    \/ \E n \in 1..2 : SetCode("lock.a", n, Pin1234, None)
    \/ DisableSlot("lock.a", 1)
    \/ \E k \in 1..2 : ResizeSlots("lock.a", k)
    \/ RunQueued("ok")
    \/ Tick("e1")
    \/ Quiesce

\* the rogue-code specification: a lock of two slots is programmed, synced and resized
\* between one and two slots; every zwave_js call takes effect, the coordinator keeps
\* ticking and the event loop keeps running queued calls
FairRogue ==
    /\ Init
    /\ [][NextRogue]_vars
    /\ WF_vars(Tick("e1"))
    /\ WF_vars(RunQueued("ok"))

\* the scanned slot numbers in which the physical lock holds a code and which are not
\* slots of the lock object
RogueSlots(e) ==
    {n \in (DOMAIN zwave[locks[e].lock_entity_id]) \cap (1..ScanSlots) :
        n \notin DOMAIN locks[e].code_slots}

\* C23: once the user has stopped calling services and every zwave_js call takes effect,
\* the coordinator's ticks eventually clear from the physical lock every code held in a
\* scanned slot number that is not a slot of the lock object.
RogueCodesCleared ==
    [](quiet => <>(RogueSlots("e1") = {}))

\* the user has stopped, the coordinator has ticked and its clear_code call for the
\* dropped slot has run, and the physical lock still holds the code
RogueCodeSurvivesClearCode ==
    /\ quiet /\ queue = <<>>
    /\ last.op = "clear_code" /\ last.slot = 2 /\ ~last.ret
    /\ zcalls = <<>>
    /\ RogueSlots("e1") = {2}

-----------------------------------------------------------------------------
(* C24: set_lock_usercode and the validity of the slot *)

\* set_code_advanced data: a schedule that starts a day ahead, and one limited to one use
ScheduledData ==
    {[usercode |-> Some(Pin5678), code_slot_name |-> Some("Bob"),
      start_date |-> IsoString(33), end_date |-> None,
      allowed_hours |-> None, allowed_days |-> None,
      max_uses |-> -1, notify_on_use |-> FALSE],
     [usercode |-> Some(Pin5678), code_slot_name |-> Some("Bob"),
      start_date |-> None, end_date |-> None,
      allowed_hours |-> None, allowed_days |-> None,
      max_uses |-> 1, notify_on_use |-> FALSE]}

NextSchedule ==
    \/ SetCode("lock.a", 1, Pin1234, Some("Ann"))
    \/ \E d \in ScheduledData : SetCodeAdvanced("lock.a", 1, d)
    \/ DisableSlot("lock.a", 1)
    \/ UseCode("lock.a", 1)
    \/ \E action \in {"enable", "disable", "auto"}, current_code \in {None, Some(Pin1234)} :
          SyncSlotToZwave("lock.a", 1, action, current_code, "ok", "ok")
    \/ RunQueued("ok")
    \/ Tick("e1")

\* the schedule specification: slot 1 is given a plain code or a scheduled one, used,
\* disabled and synced, by the coordinator and through the sync_slot_to_zwave service
SpecSchedule == Init /\ [][NextSchedule]_vars

SetWhileValidStep ==
    \A i \in 1..Len(zcalls') :
        zcalls'[i].svc = "set_lock_usercode" =>
            \E e \in DOMAIN locks :
                /\ locks[e].lock_entity_id = zcalls'[i].entity_id
                /\ zcalls'[i].slot \in DOMAIN locks[e].code_slots
                /\ is_valid_now(locks[e].code_slots[zcalls'[i].slot], now)

\* C24: zwave_js.set_lock_usercode is issued for a slot only while the slot is valid now
\* (active, with a PIN, within its dates, hours and days, under its usage cap), by the
\* coordinator's calls and by the sync_slot_to_zwave service alike.
SetCallsOnlyWhileValid == [][SetWhileValidStep]_vars

\* sync_slot_to_zwave ran on a slot whose schedule has not started: the code was written
\* to the lock
CodeSetBeforeStartDate ==
    /\ last.op = "sync_slot_to_zwave"
    /\ \E i \in 1..Len(zcalls) : zcalls[i].svc = "set_lock_usercode"
    /\ locks["e1"].code_slots[1].start_date # None
    /\ now < locks["e1"].code_slots[1].start_date[1]
    /\ ~is_valid_now(locks["e1"].code_slots[1], now)
    /\ 1 \in DOMAIN zwave["lock.a"]

-----------------------------------------------------------------------------
(* C25: is_synced and the physical lock *)

\* the physical lock agrees with the slot of entry e: it holds the slot's PIN if the slot
\* is active with a PIN, and no code in that slot otherwise
LockAgrees(e, n) ==
    LET slot == locks[e].code_slots[n]
        held == zwave[locks[e].lock_entity_id]
    IN  IF slot.is_active /\ Truthy(slot.pin_code)
        THEN n \in DOMAIN held /\ held[n] = slot.pin_code[1]
        ELSE n \notin DOMAIN held

\* C25: whenever is_synced of a slot is True the physical lock agrees with the slot, so
\* that status SYNCHRONIZED implies the code is in the lock and status DISABLED of a
\* disabled slot implies the code is no longer in the lock.
SyncedSlotsAgreeWithLock ==
    \A e \in DOMAIN locks : \A n \in DOMAIN locks[e].code_slots :
        locks[e].code_slots[n].is_synced => LockAgrees(e, n)

\* enable_slot made a disabled slot active again: the slot still counts as synced and
\* shows SYNCHRONIZED while the physical lock holds no code in it
EnabledSlotSyncedNotInLock ==
    /\ last.op = "enable_slot" /\ last.ret
    /\ locks["e1"].code_slots[last.slot].is_active
    /\ locks["e1"].code_slots[last.slot].is_synced
    /\ StatusOf(locks["e1"].code_slots[last.slot], now) = "SYNCHRONIZED"
    /\ last.slot \notin DOMAIN zwave["lock.a"]

-----------------------------------------------------------------------------
(* C26: bounded retries *)

NextRetry ==
    \/ SetCode("lock.a", 1, Pin1234, Some("Ann"))
    \/ DisableSlot("lock.a", 1)
    \/ EnableSlot("lock.a", 1)
    \/ \E outcome \in {"ok", "lost", "raises"} : RunQueued(outcome)
    \/ Tick("e1")

\* the retry specification: slot 1 is programmed, disabled and enabled while the
\* coordinator ticks and its sync calls succeed, have no effect, or raise
SpecRetry == Init /\ [][NextRetry]_vars

AttemptsBounded ==
    \A e \in DOMAIN locks : \A n \in DOMAIN locks[e].code_slots :
        locks[e].code_slots[n].sync_attempts <= MaxSyncAttempts

\* the calls the step added to the queue
NewlyQueued == SubSeq(queue', Len(queue) + 1, Len(queue'))

\* the sync calls for slot n with the given action among the calls the step queued
QueuedSyncs(n, action) ==
    {i \in 1..Len(NewlyQueued) :
        /\ NewlyQueued[i].svc = "sync_slot_to_zwave"
        /\ NewlyQueued[i].slot = n
        /\ NewlyQueued[i].action = action}

RetryStep ==
    last'.op = "tick" =>
        /\ zcalls' = <<>>
        /\ \A n \in DOMAIN locks'["e1"].code_slots :
              LET before == locks["e1"].code_slots[n]
                  after == locks'["e1"].code_slots[n]
                  held == zwave["lock.a"]
                  missing == /\ after.is_active /\ Truthy(after.pin_code)
                             /\ is_valid_now(after, now)
                             /\ (n \notin DOMAIN held \/ held[n] # after.pin_code[1])
              IN  IF missing /\ before.sync_attempts < MaxSyncAttempts
                  THEN /\ Cardinality(QueuedSyncs(n, "enable")) = 1
                       /\ after.sync_attempts = before.sync_attempts + 1
                  ELSE IF missing
                  THEN /\ \A i \in 1..Len(NewlyQueued) : NewlyQueued[i].slot # n
                       /\ after.sync_attempts = before.sync_attempts
                       /\ after.sync_error = Some("Failed to sync after 10 attempts")
                       /\ \E i \in 1..Len(events') :
                             /\ events'[i].event = "smart_lock_manager_sync_error"
                             /\ events'[i].slot_number = n
                  ELSE QueuedSyncs(n, "enable") = {}

\* C26: sync_attempts never exceeds 10; a tick issues a sync call for a slot whose code
\* is missing from the lock only while sync_attempts is below 10, each such call counting
\* one attempt, so that at most 10 are issued; from then on every tick lists the slot
\* under 'retry', sets sync_error, fires smart_lock_manager_sync_error and issues no call
\* for the slot.
RetriesBounded == []AttemptsBounded /\ [][RetryStep]_vars

\* ten attempts were made, the code is still not in the lock, and the last tick queued
\* nothing, set sync_error and fired the event
GaveUpAfterTenAttempts ==
    /\ last.op = "tick"
    /\ locks["e1"].code_slots[1].sync_attempts = MaxSyncAttempts
    /\ locks["e1"].code_slots[1].is_active
    /\ 1 \notin DOMAIN zwave["lock.a"]
    /\ queue = <<>>
    /\ locks["e1"].code_slots[1].sync_error = Some("Failed to sync after 10 attempts")
    /\ \E i \in 1..Len(events) : events[i].event = "smart_lock_manager_sync_error"

-----------------------------------------------------------------------------
(* C27: the tick after set_code *)

SetCodeThenTickStep ==
    (/\ last.op = "set_code" /\ last.ret
     /\ last'.op = "tick")
    => LET n == last.slot
           after == locks'["e1"].code_slots[n]
           held == zwave["lock.a"]
       IN  (/\ is_valid_now(after, now)
            /\ (n \notin DOMAIN held \/ held[n] # after.pin_code[1]))
           => Cardinality(QueuedSyncs(n, "enable")) = 1

\* C27: the coordinator tick that follows a successful set_code, when the slot is valid
\* now and the lock does not hold the new PIN, issues an 'enable' sync call for the slot,
\* whatever sync_attempts and sync_error the slot had before the set_code.
TickAfterSetCodeSyncs == [][SetCodeThenTickStep]_vars

\* set_code has just succeeded on a slot that had used up its attempts: the new code is
\* not in the lock and the slot still counts ten attempts
SetCodeKeptUsedUpAttempts ==
    /\ last.op = "set_code" /\ last.ret
    /\ locks["e1"].code_slots[last.slot].sync_attempts = MaxSyncAttempts
    /\ is_valid_now(locks["e1"].code_slots[last.slot], now)
    /\ last.slot \notin DOMAIN zwave["lock.a"]

-----------------------------------------------------------------------------
(* C28: recovery after an outage *)

\* during the outage a queued call runs without any effect on the physical lock
RunQueuedInOutage ==
    /\ ~quiet
    /\ RunQueued("lost")

NextOutage ==
    \/ SetCode("lock.a", 1, Pin1234, Some("Ann"))
    \/ DisableSlot("lock.a", 1)
    \/ RunQueuedInOutage
    \/ RunQueued("ok")
    \/ Tick("e1")
    \/ Quiesce

\* the outage specification: until quiet, the user programs slot 1 and sync calls may have
\* no effect; from then on there is no user action, every call takes effect, the
\* coordinator keeps ticking and the event loop keeps running queued calls
FairOutage ==
    /\ Init
    /\ [][NextOutage]_vars
    /\ WF_vars(Tick("e1"))
    /\ WF_vars(RunQueued("ok"))

\* every slot that is active, has a PIN and is valid now is in the lock and marked synced
WantedSlotsWritten ==
    \A n \in DOMAIN locks["e1"].code_slots :
        LET slot == locks["e1"].code_slots[n]
            held == zwave["lock.a"]
        IN  (slot.is_active /\ Truthy(slot.pin_code) /\ is_valid_now(slot, now))
            => /\ n \in DOMAIN held /\ held[n] = slot.pin_code[1]
               /\ slot.is_synced

\* C28: once Z-Wave sync calls take effect again after an outage of any number of ticks,
\* every slot that is active, has a PIN and is valid now is eventually written to the
\* lock and marked is_synced, with no user action and no restart.
RecoversAfterOutage ==
    [](quiet => <>WantedSlotsWritten)

\* the outage is over, the coordinator has ticked, and the slot that used up its attempts
\* during the outage is neither queued for a sync nor in the lock
NoRetryAfterOutage ==
    /\ quiet /\ last.op = "tick" /\ queue = <<>>
    /\ locks["e1"].code_slots[1].is_active
    /\ is_valid_now(locks["e1"].code_slots[1], now)
    /\ locks["e1"].code_slots[1].sync_attempts = MaxSyncAttempts
    /\ 1 \notin DOMAIN zwave["lock.a"]

-----------------------------------------------------------------------------
(* C29: the status of a slot whose sync failed for good *)

\* slot n of entry e is active and valid now, its code is not in the lock, and sync_error
\* was set after MaxSyncAttempts attempts
FailedPermanently(e, n) ==
    LET slot == locks[e].code_slots[n]
        held == zwave[locks[e].lock_entity_id]
    IN  /\ slot.is_active /\ is_valid_now(slot, now)
        /\ (n \notin DOMAIN held \/ held[n] # slot.pin_code[1])
        /\ slot.sync_attempts >= MaxSyncAttempts
        /\ slot.sync_error = Some("Failed to sync after 10 attempts")

\* C29: a slot that is active and valid now and whose sync has failed permanently has
\* status SYNC_ERROR, not SYNCHRONIZING.
FailedSlotShowsSyncError ==
    \A e \in DOMAIN locks : \A n \in DOMAIN locks[e].code_slots :
        FailedPermanently(e, n) => StatusOf(locks[e].code_slots[n], now) = "SYNC_ERROR"

\* the coordinator gave up on slot 1 and the slot shows SYNCHRONIZING
FailedSlotShowsSynchronizing ==
    /\ last.op = "tick"
    /\ FailedPermanently("e1", 1)
    /\ StatusOf(locks["e1"].code_slots[1], now) = "SYNCHRONIZING"

-----------------------------------------------------------------------------
(* C30: get_status as a function of the slot and of is_valid_now *)

\* the end dates of the sampled slots: none, hour 9 of day 0, hour 9 of day 1
StatusEndDates == {None, Some(9), Some(33)}

\* the sampled usage counters: no cap, a cap of 0, a cap not reached, a cap reached
StatusUsage ==
    {[max_uses |-> -1, use_count |-> 0], [max_uses |-> 0, use_count |-> 1],
     [max_uses |-> 2, use_count |-> 1], [max_uses |-> 2, use_count |-> 2]}

\* the sampled slots: every combination of the fields get_status reads
StatusSamples ==
    {[CodeSlot(1) EXCEPT !.pin_code = pin, !.is_active = act, !.is_synced = syn,
                         !.sync_attempts = tries, !.end_date = fin,
                         !.max_uses = use.max_uses, !.use_count = use.use_count] :
        pin \in {None, Some(PinEmpty), Some(Pin1234)}, act \in BOOLEAN, syn \in BOOLEAN,
        tries \in {0, 3}, fin \in StatusEndDates, use \in StatusUsage}

InitStatus ==
    /\ entries = ServiceEntries
    /\ hass_states = EntityStates(ServiceEntries)
    /\ order = <<"e1">>
    /\ \E s1 \in StatusSamples :
          locks = [e1 |-> [NewLock("A", "lock.a", 2, 1) EXCEPT !.code_slots[1] = s1]]
    /\ store = [e1 |-> None]
    /\ zwave = [x \in {"lock.a"} |-> <<>>]
    /\ queue = <<>>
    /\ now \in {9, 34}
    /\ quiet = FALSE
    /\ last = NoCall
    /\ zcalls = <<>>
    /\ events = <<>>
    /\ logs = <<>>
    /\ services = RegisteredServices
    /\ global_settings = FALSE

\* slot.get_status(is_valid_now) is called on slot 1 with either value of the argument;
\* the argument and the name of the status returned are kept in last.arg
GetStatus(valid_now) ==
    /\ last' = [NoCall EXCEPT
                  !.op = "get_status", !.entity_id = "lock.a", !.slot = 1,
                  !.arg = Some([is_valid_now |-> valid_now,
                                status |-> get_status(locks["e1"].code_slots[1], valid_now, now)]),
                  !.found = TRUE, !.ret = TRUE]
    /\ UNCHANGED <<entries, hass_states, order, locks, store, zwave, queue, now, quiet, zcalls,
                   events, logs, services, global_settings>>

NextStatus == \E valid_now \in BOOLEAN : GetStatus(valid_now)

SpecStatus == InitStatus /\ [][NextStatus]_vars

\* the status the stated priority gives for a slot, the argument and the instant t
StatedStatus(slot, valid_now, t) ==
    LET no_pin == slot.pin_code = None \/ slot.pin_code = Some(PinEmpty)
        expired == slot.end_date # None /\ t > slot.end_date[1]
        at_cap == slot.max_uses > 0 /\ slot.use_count >= slot.max_uses
    IN  CASE no_pin -> "EMPTY"
          [] ~no_pin /\ ~slot.is_active /\ ~slot.is_synced -> "DISABLING"
          [] ~no_pin /\ (slot.is_active \/ slot.is_synced)
             /\ (expired \/ at_cap \/ ~slot.is_active) -> "DISABLED"
          [] ~no_pin /\ slot.is_active /\ ~expired /\ ~at_cap /\ ~valid_now -> "OUTSIDE_HOURS"
          [] ~no_pin /\ slot.is_active /\ ~expired /\ ~at_cap /\ valid_now
             /\ slot.sync_attempts > 0 -> "SYNCHRONIZING"
          [] ~no_pin /\ slot.is_active /\ ~expired /\ ~at_cap /\ valid_now
             /\ slot.sync_attempts <= 0 /\ ~slot.is_synced -> "SYNC_ERROR"
          [] ~no_pin /\ slot.is_active /\ ~expired /\ ~at_cap /\ valid_now
             /\ slot.sync_attempts <= 0 /\ slot.is_synced -> "SYNCHRONIZED"

GetStatusStep ==
    last'.op = "get_status" =>
        /\ last'.arg[1].status = StatedStatus(locks["e1"].code_slots[1],
                                              last'.arg[1].is_valid_now, now)
        /\ last'.arg[1].status # "UNKNOWN"

\* C30: get_status returns, for every slot state and either value of is_valid_now, EMPTY
\* if there is no PIN; else DISABLING if inactive and not synced; else DISABLED if expired,
\* at the usage cap or inactive; else OUTSIDE_HOURS if not valid now; else SYNCHRONIZING if
\* sync_attempts > 0; else SYNC_ERROR if not synced; else SYNCHRONIZED; never UNKNOWN.
GetStatusFollowsPriority == [][GetStatusStep]_vars

\* an active, unexpired slot with a PIN, not synced and with attempts made, asked with
\* is_valid_now True: SYNCHRONIZING wins over SYNC_ERROR
UnsyncedSlotWithAttemptsAsked ==
    /\ last.op = "get_status"
    /\ last.arg[1].is_valid_now
    /\ last.arg[1].status = "SYNCHRONIZING"
    /\ ~locks["e1"].code_slots[1].is_synced
    /\ locks["e1"].code_slots[1].end_date = Some(9) /\ now = 9

-----------------------------------------------------------------------------
(* C31: get_slots_needing_sync as a function of the slots and of the codes read *)

\* the sampled slots: active or not, without PIN, with an empty PIN or with 1234, below or
\* at the attempt limit, valid now or not yet started
NeedingSamples(n) ==
    {[CodeSlot(n) EXCEPT !.is_active = act, !.pin_code = pin, !.sync_attempts = tries,
                         !.start_date = start] :
        act \in BOOLEAN, pin \in {None, Some(PinEmpty), Some(Pin1234)},
        tries \in {0, MaxSyncAttempts - 1, MaxSyncAttempts}, start \in {None, Some(100)}}

\* the zwave_codes the coordinator builds: an entry only for a slot whose usercode is not
\* empty; slots 1 and 2 are slots of the lock, slot 3 is not
NeedingZwave ==
    UNION {[D -> {Pin1234, Pin5678}] : D \in SUBSET {1, 2, 3}}

InitNeeding ==
    /\ entries = ServiceEntries
    /\ hass_states = EntityStates(ServiceEntries)
    /\ order = <<"e1">>
    /\ \E s1 \in NeedingSamples(1),
          s2 \in {CodeSlot(2), [CodeSlot(2) EXCEPT !.is_active = TRUE,
                                                   !.pin_code = Some(Pin5678)]} :
          locks = [e1 |-> [NewLock("A", "lock.a", 2, 1) EXCEPT !.code_slots[1] = s1,
                                                              !.code_slots[2] = s2]]
    /\ store = [e1 |-> None]
    /\ \E Z \in NeedingZwave : zwave = [x \in {"lock.a"} |-> Z]
    /\ queue = <<>>
    /\ now = 9
    /\ quiet = FALSE
    /\ last = NoCall
    /\ zcalls = <<>>
    /\ events = <<>>
    /\ logs = <<>>
    /\ services = RegisteredServices
    /\ global_settings = FALSE

\* lock.get_slots_needing_sync(zwave_codes) is called on the lock; the slots as they were
\* before the call and the three lists returned are kept in last.arg
GetSlotsNeedingSync ==
    /\ last.op = "init"
    /\ \E r \in {get_slots_needing_sync(locks["e1"], zwave["lock.a"], now)} :
          /\ locks' = [locks EXCEPT !["e1"] = r.lock]
          /\ last' = [NoCall EXCEPT !.op = "get_slots_needing_sync", !.entity_id = "lock.a",
                                    !.arg = Some([before |-> locks["e1"].code_slots,
                                                  add |-> r.add, remove |-> r.remove,
                                                  retry |-> r.retry]),
                                    !.found = TRUE, !.ret = TRUE]
    /\ UNCHANGED <<entries, hass_states, order, store, zwave, queue, now, quiet, zcalls, events,
                   logs, services, global_settings>>

NextNeeding == GetSlotsNeedingSync

SpecNeeding == InitNeeding /\ [][NextNeeding]_vars

\* slot n of the lock is active, has a PIN, is valid now, and Z's code for it is absent or
\* differs from its PIN
NeedsCode(cs, Z, n, t) ==
    /\ n \in DOMAIN cs
    /\ cs[n].is_active /\ Truthy(cs[n].pin_code) /\ is_valid_now(cs[n], t)
    /\ (n \notin DOMAIN Z \/ Z[n] # cs[n].pin_code[1])

\* Z holds a code for n and the slot is unknown to the lock, inactive, without PIN or not
\* valid now
NeedsRemoval(cs, Z, n, t) ==
    /\ n \in DOMAIN Z
    /\ \/ n \notin DOMAIN cs
       \/ ~cs[n].is_active
       \/ ~Truthy(cs[n].pin_code)
       \/ ~is_valid_now(cs[n], t)

NeedingStep ==
    last'.op = "get_slots_needing_sync" =>
        LET cs == locks["e1"].code_slots
            after == locks'["e1"].code_slots
            Z == zwave["lock.a"]
            r == last'.arg[1]
        IN  /\ \A n \in 1..3 :
                  /\ InList(n, r.add) <=>
                        NeedsCode(cs, Z, n, now) /\ cs[n].sync_attempts < MaxSyncAttempts
                  /\ InList(n, r.retry) <=>
                        NeedsCode(cs, Z, n, now) /\ cs[n].sync_attempts >= MaxSyncAttempts
                  /\ InList(n, r.remove) <=> NeedsRemoval(cs, Z, n, now)
            /\ \A i \in 1..Len(r.add \o r.retry \o r.remove) : (r.add \o r.retry \o r.remove)[i] \in 1..3
            /\ DOMAIN after = DOMAIN cs
            /\ \A n \in DOMAIN cs :
                  IF InList(n, r.retry)
                  THEN [after[n] EXCEPT !.sync_error = cs[n].sync_error] = cs[n]
                  ELSE after[n] = cs[n]

\* C31: get_slots_needing_sync(Z) puts a slot in 'add' iff it is active, has a PIN, is valid
\* now, Z's code for it is absent or differs, and sync_attempts < 10; in 'retry' iff the
\* same holds with sync_attempts >= 10; a slot number in 'remove' iff Z holds a code for it
\* and the slot is unknown, inactive, without PIN or not valid now; and it changes no slot
\* apart from the sync_error of 'retry' slots.
NeedingSyncClassifies == [][NeedingStep]_vars

\* slot 1 went to 'retry' and got its sync_error, slot 3, which the lock does not have,
\* went to 'remove'
RetryAndRogueClassified ==
    /\ last.op = "get_slots_needing_sync"
    /\ last.arg[1].retry = <<1>>
    /\ last.arg[1].before[1].sync_error = None
    /\ locks["e1"].code_slots[1].sync_error = Some("Failed to sync after 10 attempts")
    /\ InList(3, last.arg[1].remove)

-----------------------------------------------------------------------------
(* C32: the requests of one coordinator tick *)

OneRequestPerSlotStep ==
    last'.op = "tick" =>
        \A i, j \in 1..Len(NewlyQueued) :
            i # j => NewlyQueued[i].slot # NewlyQueued[j].slot

\* C32: within one coordinator tick at most one set or clear request is issued for any slot
\* number: the 'add', 'remove' and 'retry' lists of the tick are pairwise disjoint and each
\* holds a slot number at most once.
OneRequestPerSlotAndTick == [][OneRequestPerSlotStep]_vars

\* slot 1 is disabled while the physical lock still holds its code, and the tick has queued
\* two 'disable' sync calls for it
DisabledSlotQueuedTwice ==
    /\ last.op = "tick"
    /\ ~locks["e1"].code_slots[1].is_active
    /\ 1 \in DOMAIN zwave["lock.a"]
    /\ Len(queue) = 2
    /\ queue[1] = queue[2]
    /\ queue[1].svc = "sync_slot_to_zwave" /\ queue[1].slot = 1 /\ queue[1].action = "disable"

-----------------------------------------------------------------------------
(* C33: a slot disabled or cleared between the tick and its queued sync call *)

\* the oldest queued call is the 'enable' sync call a tick planned for slot n
EnablePlanned(n) ==
    /\ queue # <<>>
    /\ Head(queue).svc = "sync_slot_to_zwave"
    /\ Head(queue).action = "enable"
    /\ Head(queue).slot = n

\* disable_slot runs while the 'enable' call planned for the slot is still queued
DisableSlotBeforeSync(entity_id, code_slot) ==
    /\ EnablePlanned(code_slot)
    /\ Commit(SlotServices_disable_slot(World, entity_id, code_slot),
              "disable_slot", entity_id, code_slot, None)

\* clear_code runs while the 'enable' call planned for the slot is still queued
ClearCodeBeforeSync(entity_id, code_slot, outcome) ==
    /\ EnablePlanned(code_slot)
    /\ Commit(LockServices_clear_code(World, entity_id, code_slot, outcome),
              "clear_code", entity_id, code_slot, None)

NextRace ==
    \/ \E p \in {Pin1234, Pin5678} : SetCode("lock.a", 1, p, Some("Ann"))
    \/ EnableSlot("lock.a", 1)
    \/ DisableSlotBeforeSync("lock.a", 1)
    \/ \E outcome \in Outcomes : ClearCodeBeforeSync("lock.a", 1, outcome)
    \/ Tick("e1")
    \/ RunQueued("ok")

\* the race specification: slot 1 is programmed by service calls, and disable_slot and
\* clear_code run between a coordinator tick and the sync call the tick has queued
SpecRace == Init /\ [][NextRace]_vars

RaceStep ==
    (/\ last.op \in {"disable_slot", "clear_code"} /\ last.found
     /\ EnablePlanned(last.slot)
     /\ last'.op = "sync_slot_to_zwave")
    => /\ \A i \in 1..Len(zcalls') : zcalls'[i].svc # "set_lock_usercode"
       /\ ZwaveCode(zwave'["lock.a"], last.slot) = ZwaveCode(zwave["lock.a"], last.slot)

\* C33: when disable_slot or clear_code for a slot runs after a tick has planned an 'add'
\* for it and before the queued 'enable' sync call runs, that sync call does not write the
\* slot's PIN to the physical lock.
LateEnableWritesNothing == [][RaceStep]_vars

\* the 'enable' call planned for slot 1 has run after disable_slot: the slot still has its
\* PIN, no request was sent and the physical lock holds no code for the slot
EnableRanAfterDisable ==
    /\ last.op = "sync_slot_to_zwave" /\ last.arg = Some("enable") /\ last.slot = 1
    /\ ~locks["e1"].code_slots[1].is_active
    /\ locks["e1"].code_slots[1].pin_code = Some(Pin1234)
    /\ zcalls = <<>>
    /\ 1 \notin DOMAIN zwave["lock.a"]

-----------------------------------------------------------------------------
(* C34: the lock a coordinator works on *)

\* two config entries created with the default lock_name of the config flow; the unique id
\* of an entry is its lock entity, so the names may be equal
NameEntries ==
    [e1 |-> [lock_name |-> "Smart Lock", lock_entity_id |-> "lock.a", slots |-> 2],
     e2 |-> [lock_name |-> "Smart Lock", lock_entity_id |-> "lock.b", slots |-> 1]]

NextNames ==
    \/ \E x \in {"lock.a", "lock.b"} : SetCode(x, 1, Pin1234, Some("Ann"))
    \/ \E x \in {"lock.a", "lock.b"} : DisableSlot(x, 1)
    \/ \E e \in {"e1", "e2"} : Tick(e)
    \/ RunQueued("ok")

\* the names specification: both entries are loaded, slot 1 of either lock is programmed
\* and disabled, and either coordinator ticks
SpecNames == InitWith(NameEntries, 9) /\ [][NextNames]_vars

OwnLockStep ==
    last'.op = "tick" =>
        \A e \in DOMAIN locks :
            entries[e].lock_entity_id # last'.entity_id =>
                /\ locks'[e] = locks[e]
                /\ \A i \in 1..Len(NewlyQueued) :
                      NewlyQueued[i].entity_id # entries[e].lock_entity_id

\* C34: with any number of config entries loaded, the coordinator tick of an entry reads,
\* updates and syncs the lock object of its own entry and no other entry's lock, whatever
\* the lock names and friendly names are.
TickWorksOnOwnLock == [][OwnLockStep]_vars

\* the tick of the coordinator of entry e2 (lock.b) has counted a sync attempt on slot 1 of
\* the lock of entry e1 and queued a sync call for lock.a
TickOfSecondEntryUsedFirstLock ==
    /\ last.op = "tick" /\ last.entity_id = "lock.b"
    /\ locks["e1"].lock_name = locks["e2"].lock_name
    /\ locks["e1"].code_slots[1].sync_attempts = 1
    /\ Len(queue) = 1 /\ queue[1].entity_id = "lock.a" /\ queue[1].action = "enable"

-----------------------------------------------------------------------------
(* C35: the parent/child links *)

\* the settings given to update_lock_settings: a parent (either lock, an entity that is not
\* managed, or the empty string) or a lock type
LinkSettings ==
    {[NoSettings EXCEPT !.parent_lock_id = Some(x)] : x \in {"lock.a", "lock.b", "lock.none", ""}}
    \cup {[NoSettings EXCEPT !.is_main_lock = Some(b)] : b \in BOOLEAN}

RemoveChildLock(entity_id) ==
    /\ ~quiet /\ Len(queue) <= MaxPending
    /\ Commit(remove_child_lock(World, entity_id), "remove_child_lock", entity_id, 0, None)

NextLinks ==
    \/ \E x \in {"lock.a", "lock.b"}, u \in LinkSettings : UpdateLockSettings(x, u)
    \/ \E x \in EntityIds : RemoveChildLock(x)

\* the links specification: two locks are loaded and their settings are changed
SpecLinks == InitWith(ChildEntries, 9) /\ [][NextLinks]_vars

\* C35: after any sequence of update_lock_settings and remove_child_lock calls, for all
\* managed locks C and P, C.parent_lock_id is P's entity id exactly when C's entity id is in
\* P.child_lock_ids, and every non-empty parent_lock_id names a managed lock that is a main
\* lock and is not C itself.
ParentChildLinksConsistent ==
    /\ \A c, p \in DOMAIN locks :
          (locks[c].parent_lock_id = Some(locks[p].lock_entity_id))
              <=> InList(locks[c].lock_entity_id, locks[p].child_lock_ids)
    /\ \A c \in DOMAIN locks :
          TruthyId(locks[c].parent_lock_id) =>
              \E p \in DOMAIN locks \ {c} :
                  /\ locks[p].lock_entity_id = locks[c].parent_lock_id[1]
                  /\ locks[p].is_main_lock

\* lock.b is the child of lock.a, and lock.a has been made a child lock itself: its list of
\* children was emptied while lock.b still names it as parent
ParentDemotedWithChild ==
    /\ last.op = "update_lock_settings" /\ last.entity_id = "lock.a"
    /\ last.arg.is_main_lock = Some(FALSE)
    /\ locks["e2"].parent_lock_id = Some("lock.a")
    /\ ~locks["e1"].is_main_lock
    /\ locks["e1"].child_lock_ids = <<>>

-----------------------------------------------------------------------------
(* C36: what sync_to_child_locks leaves alone *)

\* the method is called on the lock of entity parent_id with the lock of entity child_id as
\* the only given lock
SyncToChildLocks(parent_id, child_id) ==
    /\ ~quiet /\ Len(queue) <= MaxPending
    /\ \E p, c \in DOMAIN locks :
          /\ locks[p].lock_entity_id = parent_id
          /\ locks[c].lock_entity_id = child_id
          /\ locks' = [locks EXCEPT ![c] = sync_to_child_locks(locks[p], locks[c])]
    /\ last' = [NoCall EXCEPT !.op = "sync_to_child_locks", !.entity_id = parent_id,
                              !.arg = Some(child_id), !.found = TRUE, !.ret = TRUE]
    /\ zcalls' = <<>> /\ events' = <<>> /\ logs' = <<>>
    /\ UNCHANGED <<entries, hass_states, order, store, zwave, queue, now, quiet, services, global_settings>>

NextChildSync ==
    \/ SetCode("lock.a", 1, Pin1234, Some("Ann"))
    \/ SetCode("lock.b", 1, Pin5678, Some("Bob"))
    \/ UseCode("lock.b", 1)
    \/ \E u \in {[NoSettings EXCEPT !.parent_lock_id = Some("lock.a")],
                 [NoSettings EXCEPT !.parent_lock_id = Some("")]} :
          UpdateLockSettings("lock.b", u)
    \/ \E b \in BOOLEAN : UpdateLockSettings("lock.a", [NoSettings EXCEPT !.is_main_lock = Some(b)])
    \/ \E x, y \in {"lock.a", "lock.b"} : SyncToChildLocks(x, y)
    \/ SyncChildLocks("lock.a")
    \/ RunQueued("ok")

\* the child sync specification: lock.a has two slots and lock.b one; the locks are
\* programmed and used, lock.b is made the child of lock.a and freed again, lock.a changes
\* its type, and codes are copied by the method and by the service
SpecChildSync == InitWith(ChildEntries, 9) /\ [][NextChildSync]_vars

\* the slots of lock x keep their numbers, use_count and last_used over the step
UsageKept(x) ==
    /\ DOMAIN locks'[x].code_slots = DOMAIN locks[x].code_slots
    /\ \A n \in DOMAIN locks[x].code_slots :
          /\ locks'[x].code_slots[n].use_count = locks[x].code_slots[n].use_count
          /\ locks'[x].code_slots[n].last_used = locks[x].code_slots[n].last_used

ChildSyncStep ==
    /\ last'.op = "sync_to_child_locks" =>
          LET p == CHOOSE x \in DOMAIN locks : locks[x].lock_entity_id = last'.entity_id
              c == CHOOSE x \in DOMAIN locks : locks[x].lock_entity_id = last'.arg[1]
          IN  /\ ~locks[p].is_main_lock => locks' = locks
              /\ locks[c].parent_lock_id # Some(locks[p].lock_entity_id) => locks' = locks
              /\ locks'[p] = locks[p]
              /\ \A x \in DOMAIN locks \ {c} : locks'[x] = locks[x]
              /\ UsageKept(c)
              /\ \A n \in DOMAIN locks[c].code_slots \ DOMAIN locks[p].code_slots :
                    locks'[c].code_slots[n] = locks[c].code_slots[n]
    /\ last'.op = "sync_child_locks" =>
          /\ DOMAIN locks' = DOMAIN locks
          /\ \A x \in DOMAIN locks :
                /\ UsageKept(x)
                /\ locks[x].lock_entity_id = last'.entity_id =>
                      /\ locks'[x] = locks[x]
                      /\ ~locks[x].is_main_lock => locks' = locks
                /\ locks[x].parent_lock_id # Some(last'.entity_id) => locks'[x] = locks[x]

\* C36: sync_to_child_locks changes nothing when called on a lock that is not a main lock,
\* skips every given lock whose parent_lock_id is not this lock's entity id, never modifies
\* the parent, leaves use_count and last_used of every child slot unchanged, skips the slot
\* numbers the child does not have and adds no slot to the child.
ChildSyncKeepsUsage == [][ChildSyncStep]_vars

\* lock.b, used once on slot 1, is the child of the main lock lock.a and has received the
\* code of slot 1; it still has its own count and no slot 2
ChildCopiedKeepsUseCount ==
    /\ last.op = "sync_to_child_locks" /\ last.entity_id = "lock.a" /\ last.arg = Some("lock.b")
    /\ locks["e1"].is_main_lock
    /\ locks["e2"].parent_lock_id = Some("lock.a")
    /\ DOMAIN locks["e1"].code_slots = {1, 2}
    /\ locks["e2"].code_slots[1].pin_code = Some(Pin1234)
    /\ locks["e2"].code_slots[1].user_name = Some("Ann")
    /\ locks["e2"].code_slots[1].use_count = 1
    /\ locks["e1"].code_slots[1].use_count = 0
    /\ DOMAIN locks["e2"].code_slots = {1}

-----------------------------------------------------------------------------
(* C37: the lifetime of the services *)

\* async_unload_entry of a loaded entry: the entry leaves hass.data[DOMAIN] and, when
\* nothing is left in it, the services of the unload list are removed
UnloadEntry(e) ==
    /\ ~quiet /\ Len(queue) <= MaxPending
    /\ e \in DOMAIN locks
    /\ \E W \in {async_unload_entry(World, e)} :
          /\ order' = W.order
          /\ locks' = W.locks
          /\ store' = W.store
          /\ zwave' = W.zwave
          /\ queue' = W.queue
          /\ zcalls' = W.zcalls
          /\ events' = W.events
          /\ logs' = W.logs
          /\ services' = IF W.order = <<>> /\ ~global_settings
                         THEN services \ RemovedServices ELSE services
    /\ last' = [NoCall EXCEPT !.op = "unload", !.entity_id = entries[e].lock_entity_id,
                              !.found = TRUE, !.ret = TRUE]
    /\ UNCHANGED <<entries, hass_states, now, quiet, global_settings>>

\* async_setup_entry of an entry that is not loaded: the lock is built and restored, the
\* services are registered and the first refresh runs
SetupEntry(e) ==
    /\ ~quiet /\ Len(queue) <= MaxPending
    /\ e \in DOMAIN entries \ DOMAIN locks
    /\ \E W \in {async_setup_entry(World, e, entries, hass_states, now)} :
          /\ order' = W.order
          /\ locks' = W.locks
          /\ store' = W.store
          /\ zwave' = W.zwave
          /\ queue' = W.queue
          /\ zcalls' = W.zcalls
          /\ events' = W.events
          /\ logs' = W.logs
    /\ services' = services \cup RegisteredServices
    /\ last' = [NoCall EXCEPT !.op = "setup", !.entity_id = entries[e].lock_entity_id,
                              !.found = TRUE, !.ret = TRUE]
    /\ UNCHANGED <<entries, hass_states, now, quiet, global_settings>>

\* the update_global_settings service, callable while it is registered: the settings are
\* stored under the key "global_settings" of hass.data[DOMAIN]
UpdateGlobalSettings ==
    /\ ~quiet /\ Len(queue) <= MaxPending
    /\ "update_global_settings" \in services
    /\ global_settings' = TRUE
    /\ last' = [NoCall EXCEPT !.op = "update_global_settings", !.found = TRUE, !.ret = TRUE]
    /\ zcalls' = <<>>
    /\ events' = <<[event |-> "smart_lock_manager_global_settings_updated",
                    entity_id |-> "", slot_number |-> 0]>>
    /\ logs' = <<>>
    /\ UNCHANGED <<entries, hass_states, order, locks, store, zwave, queue, now, quiet, services>>

NextLifetime ==
    \/ \E e \in {"e1", "e2"} : UnloadEntry(e)
    \/ \E e \in {"e1", "e2"} : SetupEntry(e)
    \/ UpdateGlobalSettings
    \/ SetCode("lock.a", 1, Pin1234, Some("Ann"))
    \/ DisableSlot("lock.a", 1)
    \/ RunQueued("ok")

\* the lifetime specification: two entries are loaded, unloaded and set up again while
\* slot 1 of lock.a is programmed and the global settings are updated
SpecLifetime == InitWith(ChildEntries, 9) /\ [][NextLifetime]_vars

\* while an entry remains loaded the step removes no service
ServicesKeptStep == order' # <<>> => services \subseteq services'

\* with no entry loaded no service is registered
NoServiceWithoutEntry == order = <<>> => services = {}

\* C37: while at least one config entry remains loaded no service of the integration is
\* removed, and after the last config entry has been unloaded, whether or not
\* update_global_settings was ever called, every registered service has been removed.
ServicesFollowEntries == []NoServiceWithoutEntry /\ [][ServicesKeptStep]_vars

\* the last entry has been unloaded, update_global_settings was never called, and four
\* services are still registered
ServicesLeftAfterLastUnload ==
    /\ last.op = "unload"
    /\ order = <<>>
    /\ ~global_settings
    /\ services = {"read_zwave_codes", "sync_slot_to_zwave", "update_lock_settings",
                   "update_global_settings"}

-----------------------------------------------------------------------------
(* C38: the usage cap *)

\* the usage cap given to set_code_advanced
UsageCap == 2

\* uses counted on the capped slot: the cap and two uses more
MaxCount == UsageCap + 2

\* set_code_advanced data: a code limited to UsageCap uses, and one without a limit
CappedData ==
    {[usercode |-> Some(Pin5678), code_slot_name |-> Some("Bob"),
      start_date |-> None, end_date |-> None,
      allowed_hours |-> None, allowed_days |-> None,
      max_uses |-> m, notify_on_use |-> FALSE] : m \in {UsageCap, -1}}

\* lock.increment_slot_usage(slot) is called on the lock of the entity, whether the slot is
\* active or not
IncrementSlotUsage(entity_id, code_slot) ==
    /\ ~quiet /\ Len(queue) <= MaxPending
    /\ \E e \in DOMAIN locks :
          /\ locks[e].lock_entity_id = entity_id
          /\ code_slot \in DOMAIN locks[e].code_slots =>
                locks[e].code_slots[code_slot].use_count < MaxCount
    /\ Commit(UseSlot(World, entity_id, code_slot, now),
              "increment_slot_usage", entity_id, code_slot, None)

NextUsage ==
    \/ \E d \in CappedData : SetCodeAdvanced("lock.a", 1, d)
    \/ SetCode("lock.a", 1, Pin1234, Some("Ann"))
    \/ \E n \in {1, MaxSlots} : IncrementSlotUsage("lock.a", n)
    \/ EnableSlot("lock.a", 1)
    \/ ResetSlotUsage("lock.a", 1)
    \/ Tick("e1")
    \/ RunQueued("ok")

\* the usage specification: slot 1 is programmed with and without a cap, used, enabled
\* and reset while the coordinator ticks
SpecUsage == Init /\ [][NextUsage]_vars

\* the slot has a cap and has been used that often
UsedUp(slot) == slot.max_uses > 0 /\ slot.use_count >= slot.max_uses

UsageStep ==
    \A n \in DOMAIN locks["e1"].code_slots :
        LET before == locks["e1"].code_slots[n]
            after == locks'["e1"].code_slots[n]
        IN  /\ (last'.op = "increment_slot_usage" /\ last'.slot = n) =>
                  /\ after.use_count = before.use_count + 1
                  /\ (after.max_uses > 0 /\ after.use_count = after.max_uses) =>
                        ~after.is_active /\ ~is_valid_now(after, now')
            /\ (UsedUp(before)
                /\ ~(last'.op \in {"reset_slot_usage", "set_code", "set_code_advanced"}
                     /\ last'.slot = n)) =>
                  UsedUp(after) /\ ~is_valid_now(after, now')

\* C38: each increment_slot_usage on an existing slot raises use_count by exactly 1; for a
\* slot with max_uses = N > 0, after the use that brings use_count to N the slot is inactive
\* and not valid now, and it stays not valid under enable_slot calls, coordinator ticks and
\* further increments until reset_slot_usage or set_code is applied to it.
UsageCapHolds == [][UsageStep]_vars

\* slot 1, capped at UsageCap uses, has been used once more than that and then enabled: it
\* is active and still not valid now
UsedUpSlotEnabled ==
    /\ last.op = "enable_slot" /\ last.slot = 1 /\ last.ret
    /\ locks["e1"].code_slots[1].max_uses = UsageCap
    /\ locks["e1"].code_slots[1].use_count = UsageCap + 1
    /\ locks["e1"].code_slots[1].is_active
    /\ ~is_valid_now(locks["e1"].code_slots[1], now)

====
